---------------------------- MODULE Spec2Model ----------------------------
(***************************************************************************)
(* Puncher! (src/main.py): the per-frame simulation core of the game as a  *)
(* state machine.  Sprites live in a heap `ent` (id -> record); the pygame *)
(* groups are sequences of ids in insertion order, which is the order in   *)
(* which pygame iterates a Group.  A frame of Game.run is any number of    *)
(* KeyDown events (handle_events) followed by one Tick (update).           *)
(*                                                                         *)
(* pygame.Rect holds integers: x, y, w, h; right = x + w, bottom = y + h,  *)
(* centerx = x + w \div 2, centery = y + h \div 2; assigning a float to a  *)
(* Rect attribute truncates it toward zero.                                *)
(***************************************************************************)
EXTENDS Integers, Sequences, FiniteSets, TLC

VARIABLES
    state,        \* Game.state: "menu" | "playing" | "paused" | "game_over"
    level,        \* Game.level
    score,        \* Game.score
    camera_x,     \* Game.camera_x
    debug_mode,   \* Game.debug_mode
    player,       \* Game.player: id of the current Player
    level_goal,   \* Game.level_goal: id of the current LevelGoal
    ent,          \* the live sprite objects: id -> record
    all_sprites,  \* Game.all_sprites
    enemies,      \* Game.enemies
    treasures,    \* Game.treasures
    power_ups,    \* Game.power_ups
    projectiles,  \* Game.projectiles
    last          \* what the last step did (observation only, never read by the game)

vars == <<state, level, score, camera_x, debug_mode, player, level_goal, ent,
          all_sprites, enemies, treasures, power_ups, projectiles, last>>

----------------------------------------------------------------------------
(* Program constants *)

SCREEN_WIDTH == 1200
SCREEN_HEIGHT == 800
world_width == 3000
player_speed == 8
jump_power == -18
gravity == 1
punch_duration == 10
invuln_duration == 60
projectile_speed == 15
laser_speed == 25
FINAL_LEVEL == 5

\* list(PowerUpType), in declaration order
PowerUpType == <<"fireball", "gun", "shield", "sword", "bow", "laser_eyes">>
PowerKinds == {PowerUpType[i] : i \in 1..Len(PowerUpType)}
\* the keys of Player.weapon_ammo
AmmoKinds == {"fireball", "gun", "laser_eyes", "bow"}

----------------------------------------------------------------------------
(* Bounds of the model *)

\* Playing ticks explored per level goal (LevelGoal.glow_timer steps)
MaxTicks == 70
\* Player.add_power_up calls explored by the method-level specifications
MaxPickups == 2
\* the player walks right up to this x (the world has no right-edge clamp)
MaxPlayerX == 140
\* Playing ticks explored with the punch key
MaxPunchTicks == 12
\* Playing ticks explored per level on the run to the goal (the goal is
\* reached after 332 ticks of walking right)
MaxRunTicks == 334
\* ticks of the level in which the fight takes place
MaxCombatTicks == 50
\* distance from the player within which the fight keys are pressed
CombatRange == 200
\* the player's x from which the far shots are fired
MinShotX == 1100
\* Playing ticks explored among the items of LayoutLoot
MaxLootTicks == 40
\* the player's x from which the jump key is tried on the first level
LeapX == 2600
\* Playing ticks explored on the first level of the jumping game
MaxLeapTicks == 372
\* Playing ticks explored on the second level of the jumping game
MaxJumpTicks == 14

----------------------------------------------------------------------------
(* Sequences and arithmetic *)

Abs(n) == IF n < 0 THEN -n ELSE n
Min(a, b) == IF a < b THEN a ELSE b
Max(a, b) == IF a > b THEN a ELSE b
\* int(n / 10) for a float n/10 assigned to a Rect attribute: toward zero
TruncDiv10(n) == IF n >= 0 THEN n \div 10 ELSE -((-n) \div 10)

Range(s) == {s[i] : i \in 1..Len(s)}
Contains(s, e) == \E i \in 1..Len(s) : s[i] = e
Remove(s, e) == SelectSeq(s, LAMBDA v : v # e)

----------------------------------------------------------------------------
(* pygame.Rect *)

Rect(x, y, w, h) == [x |-> x, y |-> y, w |-> w, h |-> h]
RectOf(s) == Rect(s.x, s.y, s.w, s.h)
CenterX(r) == r.x + (r.w \div 2)
CenterY(r) == r.y + (r.h \div 2)
\* Rect.colliderect: the rectangles overlap (touching edges do not)
ColliderRect(a, b) ==
    /\ a.x < b.x + b.w
    /\ a.y < b.y + b.h
    /\ a.x + a.w > b.x
    /\ a.y + a.h > b.y
\* squared centre-to-centre distance; math.sqrt(d2) < r  <=>  d2 < r*r
Dist2(a, b) ==
    (CenterX(a) - CenterX(b)) * (CenterX(a) - CenterX(b))
  + (CenterY(a) - CenterY(b)) * (CenterY(a) - CenterY(b))
Inflate(r, m) == Rect(r.x - m, r.y - m, r.w + 2 * m, r.h + 2 * m)

----------------------------------------------------------------------------
(* Player *)

NewPlayer(x, y) ==
    [kind |-> "player", x |-> x, y |-> y, w |-> 60, h |-> 80,
     vel_x |-> 0, vel_y |-> 0, on_ground |-> FALSE,
     health |-> 100, max_health |-> 100, punch_damage |-> 35,
     is_punching |-> FALSE, punch_timer |-> 0, punch_x |-> 0, punch_y |-> 0,
     invulnerable |-> FALSE, invuln_timer |-> 0,
     power_ups |-> <<"sword", "fireball", "gun">>,
     weapon_ammo |-> [fireball |-> 10, gun |-> 20, laser_eyes |-> 5, bow |-> 12],
     facing_right |-> TRUE, is_sneaking |-> FALSE]

\* Player.update, lines 541-562: input, gravity, move
PlayerMove(p, keys) ==
    LET vx     == IF "K_RIGHT" \in keys THEN player_speed
                  ELSE IF "K_LEFT" \in keys THEN -player_speed ELSE 0
        facing == IF "K_RIGHT" \in keys THEN TRUE
                  ELSE IF "K_LEFT" \in keys THEN FALSE ELSE p.facing_right
        jump   == "K_UP" \in keys /\ p.on_ground
        vy     == (IF jump THEN jump_power ELSE p.vel_y) + gravity
    IN  [p EXCEPT !.vel_x = vx, !.facing_right = facing,
                  !.on_ground = IF jump THEN FALSE ELSE @,
                  !.is_sneaking = "K_DOWN" \in keys,
                  !.vel_y = vy, !.x = @ + vx, !.y = @ + vy]

\* Player.update, lines 564-573: ground collision and the world's left edge
PlayerClamp(p) ==
    LET landed == p.y + p.h >= SCREEN_HEIGHT - 50
        q == IF landed
             THEN [p EXCEPT !.y = SCREEN_HEIGHT - 50 - p.h, !.vel_y = 0,
                            !.on_ground = TRUE]
             ELSE p
    IN  IF q.x < 0 THEN [q EXCEPT !.x = 0] ELSE q

\* Player.update, lines 575-587: the punch countdown and the punch hitbox
PlayerPunchTimer(p) ==
    IF p.is_punching
    THEN [p EXCEPT !.punch_timer = @ - 1,
                   !.is_punching = ~(p.punch_timer - 1 <= 0),
                   !.punch_x = IF p.facing_right THEN p.x + p.w - 20 ELSE p.x - 60,
                   !.punch_y = p.y + 10]
    ELSE p

\* variant: the countdown runs whether or not the flag is set
PlayerInvulnTimerAlways(p) ==
    [p EXCEPT !.invuln_timer = @ - 1,
              !.invulnerable = p.invulnerable /\ ~(p.invuln_timer - 1 <= 0)]

\* variant: the flag is cleared by the first countdown step
PlayerInvulnTimerOneTick(p) ==
    IF p.invulnerable
    THEN [p EXCEPT !.invuln_timer = @ - 1, !.invulnerable = FALSE]
    ELSE p

\* Player.update, lines 589-593: the invulnerability countdown
PlayerInvulnTimer(p) ==
    IF p.invulnerable
    THEN [p EXCEPT !.invuln_timer = @ - 1,
                   !.invulnerable = ~(p.invuln_timer - 1 <= 0)]
    ELSE p

\* variant: the sprite swap keeps the top edge
PlayerSpriteKeepsTop(p) ==
    [p EXCEPT !.w = 60, !.h = IF p.is_sneaking THEN 40 ELSE 80]

\* Player.update, lines 595-609: the sprite swap keeps bottom and x
PlayerSprite(p) ==
    LET nh == IF p.is_sneaking THEN 40 ELSE 80
    IN  [p EXCEPT !.w = 60, !.h = nh, !.y = (p.y + p.h) - nh]

PlayerUpdate(p, keys) ==
    PlayerSprite(PlayerInvulnTimer(PlayerPunchTimer(PlayerClamp(PlayerMove(p, keys)))))

\* variant: punch restarts the countdown of a punch in progress
PunchRestart(p) ==
    [p EXCEPT !.is_punching = TRUE, !.punch_timer = punch_duration]

\* Player.punch
Punch(p) ==
    IF ~p.is_punching
    THEN [p EXCEPT !.is_punching = TRUE, !.punch_timer = punch_duration]
    ELSE p

\* variant: take_damage without the floor at zero
TakeDamageNoFloor(p, damage) ==
    IF ~p.invulnerable
    THEN [p EXCEPT !.health = @ - damage,
                   !.invulnerable = TRUE,
                   !.invuln_timer = invuln_duration]
    ELSE p

\* variant: take_damage without the invulnerability test
TakeDamageAlways(p, damage) ==
    LET h == p.health - damage
    IN  [p EXCEPT !.health = IF h < 0 THEN 0 ELSE h,
                  !.invulnerable = TRUE,
                  !.invuln_timer = invuln_duration]

\* Player.take_damage
TakeDamage(p, damage) ==
    IF ~p.invulnerable
    THEN LET h == p.health - damage
         IN  [p EXCEPT !.health = IF h < 0 THEN 0 ELSE h,
                       !.invulnerable = TRUE,
                       !.invuln_timer = invuln_duration]
    ELSE p

\* variant: add_power_up appends the kind without looking for it
AddPowerUpAppend(p, power_type) ==
    LET q == [p EXCEPT !.power_ups = Append(@, power_type)]
    IN  CASE power_type = "fireball"   -> [q EXCEPT !.weapon_ammo.fireball = @ + 10]
          [] power_type = "gun"        -> [q EXCEPT !.weapon_ammo.gun = @ + 30]
          [] power_type = "laser_eyes" -> [q EXCEPT !.weapon_ammo.laser_eyes = @ + 8]
          [] power_type = "bow"        -> [q EXCEPT !.weapon_ammo.bow = @ + 15]
          [] power_type = "shield"     ->
                [q EXCEPT !.max_health = @ + 50,
                          !.health = Min(q.health + 25, q.max_health + 50)]
          [] power_type = "sword"      -> [q EXCEPT !.punch_damage = @ + 15]
          [] OTHER -> q

\* Player.add_power_up
AddPowerUp(p, power_type) ==
    LET q == IF ~Contains(p.power_ups, power_type)
             THEN [p EXCEPT !.power_ups = Append(@, power_type)]
             ELSE p
    IN  CASE power_type = "fireball"   -> [q EXCEPT !.weapon_ammo.fireball = @ + 10]
          [] power_type = "gun"        -> [q EXCEPT !.weapon_ammo.gun = @ + 30]
          [] power_type = "laser_eyes" -> [q EXCEPT !.weapon_ammo.laser_eyes = @ + 8]
          [] power_type = "bow"        -> [q EXCEPT !.weapon_ammo.bow = @ + 15]
          [] power_type = "shield"     ->
                [q EXCEPT !.max_health = @ + 50,
                          !.health = Min(q.health + 25, q.max_health + 50)]
          [] power_type = "sword"      -> [q EXCEPT !.punch_damage = @ + 15]
          [] OTHER -> q

----------------------------------------------------------------------------
(* Enemy, Treasure, PowerUp, Projectile, LevelGoal *)

\* Enemy.__init__; speed = 1.5 + level * 0.3 is kept in tenths (speed10)
NewEnemy(x, y, lvl, dir) ==
    [kind |-> "enemy", x |-> x, y |-> y, w |-> 50, h |-> 60,
     health |-> 20 + (lvl * 5), max_health |-> 20 + (lvl * 5),
     damage |-> 8 + (lvl * 3), speed10 |-> 15 + (lvl * 3),
     points |-> 75 + (lvl * 25),
     move_timer |-> 0, move_direction |-> dir, hit_flash_timer |-> 0]

\* Enemy.update; dir is the outcome of random.choice([-1, 1]) if it is drawn
EnemyUpdate(e, dir) ==
    LET t  == e.move_timer + 1
        d  == IF t > 60 THEN dir ELSE e.move_direction
        nx == TruncDiv10(10 * e.x + d * e.speed10)
    IN  [e EXCEPT !.move_timer = IF t > 60 THEN 0 ELSE t,
                  !.move_direction = d,
                  !.x = nx,
                  !.y = IF e.y + e.h >= SCREEN_HEIGHT - 50
                        THEN SCREEN_HEIGHT - 50 - e.h ELSE @,
                  !.hit_flash_timer = IF @ > 0 THEN @ - 1 ELSE @]

\* variant: the enemy takes half of the damage
EnemyTakeDamageHalf(e, damage) ==
    [e EXCEPT !.health = @ - (damage \div 2), !.hit_flash_timer = 5]

\* Enemy.take_damage
EnemyTakeDamage(e, damage) ==
    [e EXCEPT !.health = @ - damage, !.hit_flash_timer = 5]

\* Treasure.__init__; bounce_timer counts the 0.2 steps taken
NewTreasure(x, y, points) ==
    [kind |-> "treasure", x |-> x, y |-> y, w |-> 30, h |-> 30,
     points |-> points, bounce_timer |-> 0, original_y |-> y]

\* PowerUp.__init__; float_timer counts the 0.15 steps taken
NewPowerUp(x, y, power_type) ==
    [kind |-> "power_up", x |-> x, y |-> y, w |-> 50, h |-> 50,
     power_type |-> power_type, float_timer |-> 0, original_y |-> y]

\* int(original_y + math.sin(0.2 * k) * 5) - original_y for k = 1, 2, ...
\* (bounce_timer accumulated in double precision, the sum truncated by Rect)
SinBob5 ==
    <<
      0, 1, 2, 3, 4, 4, 4, 4, 4, 4, 4, 3, 2, 1, 0, -1, -2, -3, -4, -4,
      -5, -5, -5, -5, -5, -5, -4, -4, -3, -2, -1, 0, 1, 2, 3, 3, 4, 4, 4, 4,
      4, 4, 3, 2, 2, 1, 0, -1, -2, -3, -4, -5, -5, -5, -5, -5, -5, -5, -4, -3,
      -2, -1, 0, 1, 2, 2, 3, 4, 4, 4, 4, 4, 4, 3, 3, 2, 1, 0, -1, -2,
      -3, -4, -4, -5, -5, -5, -5, -5, -5, -4, -4, -3, -2, -1, 0, 1, 2, 3, 4, 4,
      4, 4, 4, 4, 4, 3, 2, 1, 0, -1, -2, -2, -3, -4, -5, -5, -5, -5, -5, -5,
      -5, -4, -3, -2, -1, 0, 1, 2, 3, 3, 4, 4, 4, 4, 4, 4, 3, 3, 2, 1,
      0, -1, -2, -3, -4, -4, -5, -5, -5, -5, -5, -5, -4, -3, -3, -2, -1, 0, 1, 2
    >>

\* int(original_y + math.sin(0.15 * k) * 8) - original_y for k = 1, 2, ...
SinBob8 ==
    <<
      1, 2, 3, 4, 5, 6, 6, 7, 7, 7, 7, 7, 7, 6, 6, 5, 4, 3, 2, 1,
      -1, -2, -3, -4, -5, -6, -7, -7, -8, -8, -8, -8, -8, -8, -7, -7, -6, -5, -4, -3,
      -2, 0, 1, 2, 3, 4, 5, 6, 7, 7, 7, 7, 7, 7, 7, 6, 6, 5, 4, 3,
      2, 0, -1, -2, -3, -4, -5, -6, -7, -8, -8, -8, -8, -8, -8, -8, -7, -7, -6, -5,
      -4, -3, -1, 0, 1, 2, 3, 4, 5, 6, 7, 7, 7, 7, 7, 7, 7, 6, 6, 5,
      4, 3, 2, 0, -1, -2, -3, -4, -5, -6, -7, -8, -8, -8, -8, -8, -8, -8, -7, -7,
      -6, -5, -4, -2, -1, 0, 1, 2, 3, 4, 5, 6, 7, 7, 7, 7, 7, 7, 7, 6,
      5, 5, 4, 3, 1, 0, -1, -2, -3, -4, -5, -6, -7, -8, -8, -8, -8, -8, -8, -8
    >>

\* Treasure.update
TreasureUpdate(t) ==
    [t EXCEPT !.bounce_timer = @ + 1,
              !.y = t.original_y + SinBob5[t.bounce_timer + 1]]

\* PowerUp.update
PowerUpUpdate(u) ==
    [u EXCEPT !.float_timer = @ + 1,
              !.y = u.original_y + SinBob8[u.float_timer + 1]]

\* Projectile.__init__: the image size follows the colour
NewProjectile(x, y, direction, damage, color) ==
    LET size == CASE color = "ORANGE" -> <<20, 20>>
                  [] color = "PURPLE" -> <<25, 8>>
                  [] color = "GREEN"  -> <<15, 3>>
                  [] OTHER            -> <<8, 4>>
    IN  [kind |-> "projectile", x |-> x, y |-> y, w |-> size[1], h |-> size[2],
         speed |-> projectile_speed, direction |-> direction, damage |-> damage]

\* Projectile.update, line 822: the move
ProjectileUpdate(b) == [b EXCEPT !.x = @ + b.direction * b.speed]

\* Projectile.update, line 825: off screen, compared in world coordinates
ProjectileOffScreen(b) == b.x + b.w < 0 \/ b.x > SCREEN_WIDTH

\* LevelGoal.__init__; glow_timer counts the 0.2 steps taken
NewLevelGoal(x, y) ==
    [kind |-> "goal", x |-> x, y |-> y, w |-> 100, h |-> 150, glow_timer |-> 0]

\* LevelGoal.update (the alpha pulse is presentation only)
LevelGoalUpdate(s) == [s EXCEPT !.glow_timer = @ + 1]

----------------------------------------------------------------------------
(* The Game object as a record, the sprite heap and the groups *)

\* what a step observed: the step (op, arg), the player before it, and the
\* calls it made, in order
NoObs ==
    [op |-> "init", arg |-> "", pre |-> <<>>,
     punched |-> <<>>,   \* Enemy.take_damage calls of the punch pass
     contact |-> <<>>,   \* Player.take_damage calls of the contact pass
     picked |-> <<>>,    \* treasures picked up
     powered |-> <<>>,   \* Player.add_power_up calls of the power-up pass
     shot |-> <<>>,      \* Enemy.take_damage calls of the projectile pass
     fired |-> <<>>,     \* projectiles spawned by use_power
     swept |-> <<>>,     \* sprites killed by cleanup_sprites
     spawned |-> <<>>,   \* sprites constructed by generate_level_content
     advanced |-> FALSE] \* the goal was touched

Game ==
    [state |-> state, level |-> level, score |-> score, camera_x |-> camera_x,
     debug_mode |-> debug_mode, player |-> player, level_goal |-> level_goal,
     ent |-> ent, all_sprites |-> all_sprites, enemies |-> enemies,
     treasures |-> treasures, power_ups |-> power_ups,
     projectiles |-> projectiles, obs |-> NoObs]

\* None
None == 0

\* a fresh object identity: the least id not in use
NewId(g) ==
    CHOOSE i \in 1..(Cardinality(DOMAIN g.ent) + 1) :
        /\ i \notin DOMAIN g.ent
        /\ \A j \in 1..(i - 1) : j \in DOMAIN g.ent

\* construct a sprite, add it to all_sprites and to the group grp
\* ("none": to all_sprites only)
Spawn(g, rec, grp) ==
    LET id == NewId(g)
        h  == [g EXCEPT !.ent = (id :> rec) @@ @,
                        !.all_sprites = Append(@, id)]
    IN  IF grp = "none" THEN h ELSE [h EXCEPT ![grp] = Append(@, id)]

\* Sprite.kill: out of every group; the object itself stays until the step ends
Kill(g, id) ==
    [g EXCEPT !.all_sprites = Remove(@, id), !.enemies = Remove(@, id),
              !.treasures = Remove(@, id), !.power_ups = Remove(@, id),
              !.projectiles = Remove(@, id)]

\* objects still referenced: members of all_sprites, Game.player, Game.level_goal
Referenced(g) == (Range(g.all_sprites) \cup {g.player, g.level_goal}) \ {None}

\* the objects no group and no attribute refers to are gone
Collect(g) == [g EXCEPT !.ent = [i \in Referenced(g) |-> g.ent[i]]]

P(g) == g.ent[g.player]

----------------------------------------------------------------------------
(* Level Generator *)

\* variant: the treasure count grows with every second level
NumTreasuresHalved(lvl) == 3 + ((lvl + 1) \div 2)

\* num_enemies, num_treasures, num_power_ups of generate_level_content
NumEnemies(lvl) == 4 + (lvl * 2)
NumTreasures(lvl) == 3 + lvl
NumPowerUps(lvl) == 1 + (lvl \div 2)

RECURSIVE SpawnEnemies(_, _, _, _)
SpawnEnemies(g, lay, i, n) ==
    IF i > n THEN g
    ELSE SpawnEnemies(
            Spawn(g, NewEnemy(lay.ex[i], SCREEN_HEIGHT - 120, g.level, lay.edir[i]),
                  "enemies"),
            lay, i + 1, n)

RECURSIVE SpawnTreasures(_, _, _, _)
SpawnTreasures(g, lay, i, n) ==
    IF i > n THEN g
    ELSE SpawnTreasures(
            Spawn(g, NewTreasure(lay.tx[i], lay.ty[i], lay.tpoints[i]), "treasures"),
            lay, i + 1, n)

RECURSIVE SpawnPowerUps(_, _, _, _)
SpawnPowerUps(g, lay, i, n) ==
    IF i > n THEN g
    ELSE SpawnPowerUps(
            Spawn(g, NewPowerUp(lay.px[i], lay.py[i], lay.ptype[i]), "power_ups"),
            lay, i + 1, n)

\* Game.generate_level_content; lay holds the outcomes of its random draws
GenerateLevelContent(g, lay) ==
    LET g1 == SpawnEnemies(g, lay, 1, NumEnemies(g.level))
        g2 == SpawnTreasures(g1, lay, 1, NumTreasures(g.level))
        g3 == SpawnPowerUps(g2, lay, 1, NumPowerUps(g.level))
        id == NewId(g3)
        goal == NewLevelGoal(world_width - 200, SCREEN_HEIGHT - 200)
    IN  [g3 EXCEPT !.ent = (id :> goal) @@ @,
                   !.level_goal = id,
                   !.all_sprites = Append(@, id),
                   !.obs.spawned =
                       @ \o [k \in 1..(Len(g3.all_sprites) - Len(g.all_sprites)) |->
                                g3.ent[g3.all_sprites[Len(g.all_sprites) + k]]]
                         \o <<goal>>]

\* Game.init_game
InitGame(g, lay) ==
    LET id == NewId(g)
        g1 == [g EXCEPT !.ent = (id :> NewPlayer(100, SCREEN_HEIGHT - 150)) @@ @,
                        !.player = id,
                        !.all_sprites = Append(@, id),
                        !.enemies = <<>>, !.treasures = <<>>,
                        !.power_ups = <<>>, !.projectiles = <<>>]
        g2 == IF g1.level_goal # None THEN Kill(g1, g1.level_goal) ELSE g1
    IN  GenerateLevelContent(g2, lay)

\* Game.__init__ before its call of init_game
NewGame ==
    [state |-> "menu", level |-> 1, score |-> 0, camera_x |-> 0,
     debug_mode |-> FALSE, player |-> None, level_goal |-> None,
     ent |-> <<>>, all_sprites |-> <<>>, enemies |-> <<>>,
     treasures |-> <<>>, power_ups |-> <<>>, projectiles |-> <<>>,
     obs |-> NoObs]

----------------------------------------------------------------------------
(* Player.use_power *)

\* variant: use_power without the ammo test
CanUsePowerUnlocked(p, power_type) == Contains(p.power_ups, power_type)

\* variant: use_power without the unlocked test
CanUsePowerAmmoOnly(p, power_type) ==
    ~(/\ power_type \in AmmoKinds
      /\ power_type \notin {"sword", "shield"}
      /\ p.weapon_ammo[power_type] <= 0)

\* lines 654-661: the early returns of use_power
CanUsePower(p, power_type) ==
    /\ Contains(p.power_ups, power_type)
    /\ ~(/\ power_type \in AmmoKinds
         /\ power_type \notin {"sword", "shield"}
         /\ p.weapon_ammo[power_type] <= 0)

\* variant: the shot leaves the ammo as it is
ShootFree(g, power_type, damage, color, speed) ==
    LET p  == P(g)
        direction == IF p.facing_right THEN 1 ELSE -1
        start_x   == IF p.facing_right THEN p.x + p.w ELSE p.x
        b  == [NewProjectile(start_x, CenterY(RectOf(p)), direction, damage, color)
                  EXCEPT !.speed = speed]
    IN  [Spawn(g, b, "projectiles") EXCEPT !.obs.fired = Append(@, power_type)]

\* one branch of use_power: a projectile at the leading edge and the vertical
\* centre, travelling in the facing direction; one round less
Shoot(g, power_type, damage, color, speed) ==
    LET p  == P(g)
        direction == IF p.facing_right THEN 1 ELSE -1
        start_x   == IF p.facing_right THEN p.x + p.w ELSE p.x
        target_y  == CenterY(RectOf(p))
        b  == [NewProjectile(start_x, target_y, direction, damage, color)
                  EXCEPT !.speed = speed]
        g1 == Spawn(g, b, "projectiles")
    IN  [g1 EXCEPT !.ent[g.player].weapon_ammo[power_type] = @ - 1,
                   !.obs.fired = Append(@, power_type)]

UsePower(g, power_type) ==
    IF ~CanUsePower(P(g), power_type) THEN g
    ELSE CASE power_type = "fireball"   -> Shoot(g, power_type, 40, "ORANGE", projectile_speed)
           [] power_type = "gun"        -> Shoot(g, power_type, 20, "WHITE", projectile_speed)
           [] power_type = "laser_eyes" -> Shoot(g, power_type, 50, "PURPLE", laser_speed)
           [] power_type = "bow"        -> Shoot(g, power_type, 35, "GREEN", projectile_speed)
           [] OTHER -> g

----------------------------------------------------------------------------
(* Game.check_collisions *)

\* lines 205-210: the punch hit-rectangle, 80 x 60, grown by 10 on every side
PunchArea(p) == Inflate(Rect(p.punch_x, p.punch_y, 80, 60), 10)

\* variant: the punch pass stops at the first enemy it hits
RECURSIVE PunchPassFirstOnly(_, _, _)
PunchPassFirstOnly(g, ids, i) ==
    IF i > Len(ids) THEN g
    ELSE LET id == ids[i]
             e  == g.ent[id]
         IN  IF ColliderRect(PunchArea(P(g)), RectOf(e))
             THEN LET e1 == EnemyTakeDamage(e, P(g).punch_damage)
                      g1 == [g EXCEPT !.ent[id] = e1,
                                      !.obs.punched =
                                          Append(@, [id |-> id, rect |-> RectOf(e),
                                                     before |-> e.health,
                                                     after |-> e1.health,
                                                     points |-> e.points])]
                  IN  IF e1.health <= 0
                      THEN Kill([g1 EXCEPT !.score = @ + e1.points], id)
                      ELSE g1
             ELSE PunchPassFirstOnly(g, ids, i + 1)

\* lines 203-215 for the enemies ids[i..]
RECURSIVE PunchPass(_, _, _)
PunchPass(g, ids, i) ==
    IF i > Len(ids) THEN g
    ELSE LET id == ids[i]
             e  == g.ent[id]
         IN  IF ColliderRect(PunchArea(P(g)), RectOf(e))
             THEN LET e1 == EnemyTakeDamage(e, P(g).punch_damage)
                      g1 == [g EXCEPT !.ent[id] = e1,
                                      !.obs.punched =
                                          Append(@, [id |-> id, rect |-> RectOf(e),
                                                     before |-> e.health,
                                                     after |-> e1.health,
                                                     points |-> e.points])]
                      g2 == IF e1.health <= 0
                            THEN Kill([g1 EXCEPT !.score = @ + e1.points], id)
                            ELSE g1
                  IN  PunchPass(g2, ids, i + 1)
             ELSE PunchPass(g, ids, i + 1)

\* variant: the punch pass runs without looking at is_punching
PunchEnemiesAlways(g) == PunchPass(g, g.enemies, 1)

\* lines 201-215: player punch vs enemies
PunchEnemies(g) ==
    IF P(g).is_punching THEN PunchPass(g, g.enemies, 1) ELSE g

\* variant: the contact test does not look at the invulnerability flag
ContactHitsAnyTime(p, e) ==
    Dist2(RectOf(p), RectOf(e)) < 50 * 50

\* line 222: the enemy is within the contact radius and the player can be hurt
ContactHits(p, e) ==
    Dist2(RectOf(p), RectOf(e)) < 50 * 50 /\ ~p.invulnerable

\* lines 218-223 for the enemies ids[i..]
RECURSIVE ContactPass(_, _, _)
ContactPass(g, ids, i) ==
    IF i > Len(ids) THEN g
    ELSE LET id == ids[i]
             e  == g.ent[id]
             p  == P(g)
         IN  IF ContactHits(p, e)
             THEN LET q == TakeDamage(p, e.damage)
                  IN  ContactPass(
                        [g EXCEPT !.ent[g.player] = q,
                                  !.obs.contact =
                                      Append(@, [enemy |-> id, damage |-> e.damage,
                                                 before |-> p.health,
                                                 after |-> q.health])],
                        ids, i + 1)
             ELSE ContactPass(g, ids, i + 1)

\* lines 217-223: enemies vs player
ContactDamage(g) == ContactPass(g, g.enemies, 1)

\* variant: the raw rectangles alone decide
PickupTestRaw(p, item, margin) ==
    ColliderRect(RectOf(p), RectOf(item))

\* lines 229-237 and 245-253: the item grown by the margin overlaps the player,
\* or the raw rectangles overlap
PickupTest(p, item, margin) ==
    \/ ColliderRect(Inflate(RectOf(item), margin), RectOf(p))
    \/ ColliderRect(RectOf(p), RectOf(item))

\* lines 226-239 for the treasures ids[i..]
RECURSIVE TreasurePass(_, _, _)
TreasurePass(g, ids, i) ==
    IF i > Len(ids) THEN g
    ELSE LET id == ids[i]
             t  == g.ent[id]
         IN  IF PickupTest(P(g), t, 25)
             THEN TreasurePass(
                    Kill([g EXCEPT !.score = @ + t.points,
                                   !.obs.picked =
                                       Append(@, [id |-> id, points |-> t.points])],
                         id),
                    ids, i + 1)
             ELSE TreasurePass(g, ids, i + 1)

\* lines 242-255 for the power-ups ids[i..]
RECURSIVE PowerUpPass(_, _, _)
PowerUpPass(g, ids, i) ==
    IF i > Len(ids) THEN g
    ELSE LET id == ids[i]
             u  == g.ent[id]
         IN  IF PickupTest(P(g), u, 30)
             THEN PowerUpPass(
                    Kill([g EXCEPT !.ent[g.player] = AddPowerUp(P(g), u.power_type),
                                   !.obs.powered = Append(@, u.power_type)], id),
                    ids, i + 1)
             ELSE PowerUpPass(g, ids, i + 1)

\* variant: the goal of the final level ends the game and also generates
\* content once more
GoalPassRegenerates(g, lay) ==
    IF g.level_goal # None
       /\ Dist2(RectOf(P(g)), RectOf(g.ent[g.level_goal])) < 80 * 80
    THEN LET g1 == [g EXCEPT !.obs.advanced = TRUE]
         IN  IF g1.level + 1 > FINAL_LEVEL
             THEN [GenerateLevelContent(g1, lay)
                      EXCEPT !.level = @ + 1, !.state = "game_over"]
             ELSE GenerateLevelContent(
                    [g1 EXCEPT !.level = @ + 1,
                               !.ent[g.player].x = 100,
                               !.ent[g.player].y = SCREEN_HEIGHT - 150,
                               !.camera_x = 0],
                    lay)
    ELSE g

\* variant: the advance leaves the player where it touched the goal
GoalPassKeepPosition(g, lay) ==
    IF g.level_goal # None
       /\ Dist2(RectOf(P(g)), RectOf(g.ent[g.level_goal])) < 80 * 80
    THEN LET g1 == [g EXCEPT !.level = @ + 1, !.obs.advanced = TRUE]
         IN  IF g1.level > FINAL_LEVEL
             THEN [g1 EXCEPT !.state = "game_over"]
             ELSE GenerateLevelContent([g1 EXCEPT !.camera_x = 0], lay)
    ELSE g

\* lines 257-270: player vs level goal
GoalPass(g, lay) ==
    IF g.level_goal # None
       /\ Dist2(RectOf(P(g)), RectOf(g.ent[g.level_goal])) < 80 * 80
    THEN LET g1 == [g EXCEPT !.level = @ + 1, !.obs.advanced = TRUE]
         IN  IF g1.level > FINAL_LEVEL
             THEN [g1 EXCEPT !.state = "game_over"]
             ELSE GenerateLevelContent(
                    [g1 EXCEPT !.ent[g.player].x = 100,
                               !.ent[g.player].y = SCREEN_HEIGHT - 150,
                               !.camera_x = 0],
                    lay)
    ELSE g

\* variant: a projectile removes an enemy only below zero health
RECURSIVE ProjectileHitsBelowZero(_, _, _, _)
ProjectileHitsBelowZero(g, pid, ids, i) ==
    IF i > Len(ids) THEN g
    ELSE LET id == ids[i]
             e  == g.ent[id]
             b  == g.ent[pid]
         IN  IF Dist2(RectOf(b), RectOf(e)) < 40 * 40
             THEN LET e1 == EnemyTakeDamage(e, b.damage)
                      g1 == [g EXCEPT !.ent[id] = e1,
                                      !.obs.shot =
                                          Append(@, [projectile |-> pid, id |-> id,
                                                     before |-> e.health,
                                                     after |-> e1.health,
                                                     points |-> e.points])]
                      g2 == IF e1.health < 0
                            THEN Kill([g1 EXCEPT !.score = @ + e1.points], id)
                            ELSE g1
                  IN  ProjectileHitsBelowZero(Kill(g2, pid), pid, ids, i + 1)
             ELSE ProjectileHitsBelowZero(g, pid, ids, i + 1)

\* lines 274-283 for one projectile and the enemies ids[i..]; the loop goes on
\* after projectile.kill()
RECURSIVE ProjectileHits(_, _, _, _)
ProjectileHits(g, pid, ids, i) ==
    IF i > Len(ids) THEN g
    ELSE LET id == ids[i]
             e  == g.ent[id]
             b  == g.ent[pid]
         IN  IF Dist2(RectOf(b), RectOf(e)) < 40 * 40
             THEN LET e1 == EnemyTakeDamage(e, b.damage)
                      g1 == [g EXCEPT !.ent[id] = e1,
                                      !.obs.shot =
                                          Append(@, [projectile |-> pid, id |-> id,
                                                     before |-> e.health,
                                                     after |-> e1.health,
                                                     points |-> e.points])]
                      g2 == IF e1.health <= 0
                            THEN Kill([g1 EXCEPT !.score = @ + e1.points], id)
                            ELSE g1
                  IN  ProjectileHits(Kill(g2, pid), pid, ids, i + 1)
             ELSE ProjectileHits(g, pid, ids, i + 1)

\* lines 273-283 for the projectiles pids[k..]: list(self.enemies) is taken
\* anew for every projectile
RECURSIVE ProjectilePass(_, _, _)
ProjectilePass(g, pids, k) ==
    IF k > Len(pids) THEN g
    ELSE ProjectilePass(ProjectileHits(g, pids[k], g.enemies, 1), pids, k + 1)

CheckCollisions(g, lay) ==
    LET g1 == PunchEnemies(g)
        g2 == ContactDamage(g1)
        g3 == TreasurePass(g2, g2.treasures, 1)
        g4 == PowerUpPass(g3, g3.power_ups, 1)
        g5 == GoalPass(g4, lay)
    IN  ProjectilePass(g5, g5.projectiles, 1)

----------------------------------------------------------------------------
(* Game.cleanup_sprites *)

\* variant: cleanup looks at the world bounds only
TooFarOffWorld(g, s) ==
    \/ s.x < -200
    \/ s.x > world_width + 200

\* lines 290-292
TooFar(g, s) ==
    \/ s.x < -200
    \/ s.x > world_width + 200
    \/ Abs(s.x - P(g).x) > 2000

\* variant: cleanup spares every level goal, not only the current one
RECURSIVE CleanupPassSparesGoals(_, _, _)
CleanupPassSparesGoals(g, ids, i) ==
    IF i > Len(ids) THEN g
    ELSE LET id == ids[i]
         IN  IF id # g.player /\ g.ent[id].kind # "goal" /\ TooFar(g, g.ent[id])
             THEN CleanupPassSparesGoals(
                    Kill([g EXCEPT !.obs.swept = Append(@, id)], id), ids, i + 1)
             ELSE CleanupPassSparesGoals(g, ids, i + 1)

RECURSIVE CleanupPass(_, _, _)
CleanupPass(g, ids, i) ==
    IF i > Len(ids) THEN g
    ELSE LET id == ids[i]
         IN  IF id # g.player /\ id # g.level_goal /\ TooFar(g, g.ent[id])
             THEN CleanupPass(Kill([g EXCEPT !.obs.swept = Append(@, id)], id),
                              ids, i + 1)
             ELSE CleanupPass(g, ids, i + 1)

CleanupSprites(g) == CleanupPass(g, g.all_sprites, 1)

----------------------------------------------------------------------------
(* Game.update *)

\* the n-th outcome of random.choice([-1, 1]) within one tick
DirAt(dirs, n) == IF dirs.alternate /\ n % 2 = 0 THEN -dirs.first ELSE dirs.first

\* Sprite.update of one sprite, by its class
SpriteUpdate(s, keys, dir) ==
    CASE s.kind = "player"     -> PlayerUpdate(s, keys)
      [] s.kind = "enemy"      -> EnemyUpdate(s, dir)
      [] s.kind = "treasure"   -> TreasureUpdate(s)
      [] s.kind = "power_up"   -> PowerUpUpdate(s)
      [] s.kind = "projectile" -> ProjectileUpdate(s)
      [] s.kind = "goal"       -> LevelGoalUpdate(s)

RECURSIVE KillAll(_, _, _)
KillAll(g, ids, i) ==
    IF i > Len(ids) THEN g ELSE KillAll(Kill(g, ids[i]), ids, i + 1)

\* line 181, self.all_sprites.update(): every member, in insertion order; the
\* enemies that draw a new direction take the outcomes in that order; a
\* projectile that left the screen kills itself
SpritesUpdate(g, keys, dirs) ==
    LET ids == g.all_sprites
        Draws(i) == Cardinality({j \in 1..i :
                        /\ g.ent[ids[j]].kind = "enemy"
                        /\ g.ent[ids[j]].move_timer + 1 > 60})
        Pos(id) == CHOOSE i \in 1..Len(ids) : ids[i] = id
        g1 == [g EXCEPT !.ent =
                 [id \in DOMAIN g.ent |->
                    IF id \in Range(ids)
                    THEN SpriteUpdate(g.ent[id], keys, DirAt(dirs, Draws(Pos(id))))
                    ELSE g.ent[id]]]
        gone == SelectSeq(ids, LAMBDA id :
                    /\ g1.ent[id].kind = "projectile"
                    /\ ProjectileOffScreen(g1.ent[id]))
    IN  KillAll(g1, gone, 1)

\* variant: the camera is not clamped to the world
CameraFollowUnclamped(g) ==
    [g EXCEPT !.camera_x = P(g).x - (SCREEN_WIDTH \div 3)]

\* lines 184-185
CameraFollow(g) ==
    LET target_camera_x == P(g).x - (SCREEN_WIDTH \div 3)
    IN  [g EXCEPT !.camera_x = Max(0, Min(target_camera_x, world_width - SCREEN_WIDTH))]

\* lines 196-197
GameOverCheck(g) ==
    IF P(g).health <= 0 THEN [g EXCEPT !.state = "game_over"] ELSE g

\* variant: the update runs in every mode
UpdateAlways(g, keys, dirs, lay) ==
    GameOverCheck(
      CleanupSprites(
        CheckCollisions(
          CameraFollow(
            SpritesUpdate(g, keys, dirs)),
          lay)))

Update(g, keys, dirs, lay) ==
    IF g.state # "playing" THEN g
    ELSE GameOverCheck(
           CleanupSprites(
             CheckCollisions(
               CameraFollow(
                 SpritesUpdate(g, keys, dirs)),
               lay)))

----------------------------------------------------------------------------
(* Game.handle_events, one KEYDOWN event *)

\* lines 164-171
PowerKeys ==
    [K_1 |-> "fireball", K_2 |-> "gun", K_3 |-> "shield", K_4 |-> "sword",
     K_5 |-> "bow", K_6 |-> "laser_eyes"]

\* variant: the pause key also leaves the game-over screen
HandleKeyEscapeLeaves(g, key, lay) ==
    IF key = "K_ESCAPE"
    THEN IF g.state = "playing" THEN [g EXCEPT !.state = "paused"]
         ELSE IF g.state = "paused" THEN [g EXCEPT !.state = "playing"]
         ELSE IF g.state = "game_over" THEN [g EXCEPT !.state = "menu"]
         ELSE g
    ELSE IF key = "K_RETURN"
    THEN IF g.state = "menu" THEN InitGame([g EXCEPT !.state = "playing"], lay)
         ELSE IF g.state = "game_over"
         THEN [g EXCEPT !.state = "menu", !.level = 1, !.score = 0]
         ELSE g
    ELSE IF key = "K_SPACE" /\ g.state = "playing"
    THEN [g EXCEPT !.ent[g.player] = Punch(P(g))]
    ELSE IF key = "K_d" /\ g.state = "playing"
    THEN [g EXCEPT !.debug_mode = ~@]
    ELSE IF g.state = "playing" /\ key \in DOMAIN PowerKeys
    THEN UsePower(g, PowerKeys[key])
    ELSE g

\* variant: leaving the game-over screen resets the level but keeps the score
HandleKeyKeepsScore(g, key, lay) ==
    IF key = "K_ESCAPE"
    THEN IF g.state = "playing" THEN [g EXCEPT !.state = "paused"]
         ELSE IF g.state = "paused" THEN [g EXCEPT !.state = "playing"]
         ELSE g
    ELSE IF key = "K_RETURN"
    THEN IF g.state = "menu" THEN InitGame([g EXCEPT !.state = "playing"], lay)
         ELSE IF g.state = "game_over"
         THEN [g EXCEPT !.state = "menu", !.level = 1]
         ELSE g
    ELSE IF key = "K_SPACE" /\ g.state = "playing"
    THEN [g EXCEPT !.ent[g.player] = Punch(P(g))]
    ELSE IF key = "K_d" /\ g.state = "playing"
    THEN [g EXCEPT !.debug_mode = ~@]
    ELSE IF g.state = "playing" /\ key \in DOMAIN PowerKeys
    THEN UsePower(g, PowerKeys[key])
    ELSE g

HandleKey(g, key, lay) ==
    IF key = "K_ESCAPE"
    THEN IF g.state = "playing" THEN [g EXCEPT !.state = "paused"]
         ELSE IF g.state = "paused" THEN [g EXCEPT !.state = "playing"]
         ELSE g
    ELSE IF key = "K_RETURN"
    THEN IF g.state = "menu" THEN InitGame([g EXCEPT !.state = "playing"], lay)
         ELSE IF g.state = "game_over"
         THEN [g EXCEPT !.state = "menu", !.level = 1, !.score = 0]
         ELSE g
    ELSE IF key = "K_SPACE" /\ g.state = "playing"
    THEN [g EXCEPT !.ent[g.player] = Punch(P(g))]
    ELSE IF key = "K_d" /\ g.state = "playing"
    THEN [g EXCEPT !.debug_mode = ~@]
    ELSE IF g.state = "playing" /\ key \in DOMAIN PowerKeys
    THEN UsePower(g, PowerKeys[key])
    ELSE g

----------------------------------------------------------------------------
(* Inputs *)

\* outcomes of the random draws of one generate_level_content call, long
\* enough for level 5 (14 enemies, 8 treasures, 3 power-ups)
LayoutNear ==
    [ex      |-> <<200, 232, 240, 900, 2300, 2800, 400, 500, 600, 700, 800, 1000, 1100, 1200>>,
     edir    |-> <<-1, -1, 1, -1, 1, -1, 1, -1, 1, -1, 1, -1, 1, -1>>,
     tx      |-> <<200, 420, 1500, 2900, 150, 600, 700, 800>>,
     ty      |-> <<650, 680, 600, 620, 640, 660, 670, 610>>,
     tpoints |-> <<150, 400, 275, 300, 200, 250, 350, 160>>,
     px      |-> <<300, 1000, 2700>>,
     py      |-> <<650, 580, 670>>,
     ptype   |-> <<"shield", "fireball", "bow">>]

LayoutFar ==
    [ex      |-> <<1000, 1010, 1400, 1800, 2200, 2600, 1200, 1300, 1500, 1600, 1700, 1900, 2000, 2100>>,
     edir    |-> <<1, 1, -1, 1, -1, 1, -1, 1, -1, 1, -1, 1, -1, 1>>,
     tx      |-> <<500, 1000, 2000, 2500, 2600, 2700, 2800, 2900>>,
     ty      |-> <<600, 680, 640, 620, 640, 660, 670, 610>>,
     tpoints |-> <<400, 150, 275, 300, 200, 250, 350, 160>>,
     px      |-> <<2000, 2400, 300>>,
     py      |-> <<600, 580, 670>>,
     ptype   |-> <<"laser_eyes", "sword", "gun">>]

Layouts == {LayoutNear, LayoutFar}

\* a draw that puts everything more than 2000 to the right of the start
LayoutClear ==
    [ex      |-> <<2150, 2200, 2250, 2300, 2350, 2400, 2450, 2500, 2550, 2600, 2650, 2700, 2750, 2800>>,
     edir    |-> <<-1, -1, -1, -1, -1, -1, -1, -1, -1, -1, -1, -1, -1, -1>>,
     tx      |-> <<2200, 2300, 2400, 2500, 2600, 2700, 2800, 2900>>,
     ty      |-> <<650, 680, 600, 620, 640, 660, 670, 610>>,
     tpoints |-> <<150, 400, 275, 300, 200, 250, 350, 160>>,
     px      |-> <<2200, 2400, 2700>>,
     py      |-> <<650, 580, 670>>,
     ptype   |-> <<"shield", "fireball", "bow">>]

\* a draw with two enemies and a treasure on the way to the goal
LayoutMid ==
    [ex      |-> <<800, 1700, 2250, 2300, 2350, 2400, 2450, 2500, 2550, 2600, 2650, 2700, 2750, 2800>>,
     edir    |-> <<-1, -1, -1, -1, -1, -1, -1, -1, -1, -1, -1, -1, -1, -1>>,
     tx      |-> <<1200, 2300, 2400, 2500, 2600, 2700, 2800, 2900>>,
     ty      |-> <<650, 680, 600, 620, 640, 660, 670, 610>>,
     tpoints |-> <<200, 400, 275, 300, 200, 250, 350, 160>>,
     px      |-> <<2200, 2400, 2700>>,
     py      |-> <<650, 580, 670>>,
     ptype   |-> <<"shield", "fireball", "bow">>]

LevelLayouts == {LayoutClear, LayoutMid}

\* every draw of a layout is an outcome its random.randint / random.choice has
LayoutOK(lay) ==
    /\ \A i \in 1..Len(lay.ex) : lay.ex[i] \in 200..(world_width - 200)
    /\ \A i \in 1..Len(lay.edir) : lay.edir[i] \in {-1, 1}
    /\ \A i \in 1..Len(lay.tx) : lay.tx[i] \in 100..(world_width - 100)
    /\ \A i \in 1..Len(lay.ty) : lay.ty[i] \in (SCREEN_HEIGHT - 200)..(SCREEN_HEIGHT - 120)
    /\ \A i \in 1..Len(lay.tpoints) : lay.tpoints[i] \in 150..400
    /\ \A i \in 1..Len(lay.px) : lay.px[i] \in 300..(world_width - 300)
    /\ \A i \in 1..Len(lay.py) : lay.py[i] \in (SCREEN_HEIGHT - 220)..(SCREEN_HEIGHT - 130)
    /\ \A i \in 1..Len(lay.ptype) : lay.ptype[i] \in PowerKinds

\* streams of random.choice([-1, 1]) outcomes for the enemies of one tick
DirStreams == [first : {-1, 1}, alternate : BOOLEAN]

----------------------------------------------------------------------------
(* The state machine *)

SetGame(g) ==
    /\ state' = g.state
    /\ level' = g.level
    /\ score' = g.score
    /\ camera_x' = g.camera_x
    /\ debug_mode' = g.debug_mode
    /\ player' = g.player
    /\ level_goal' = g.level_goal
    /\ ent' = g.ent
    /\ all_sprites' = g.all_sprites
    /\ enemies' = g.enemies
    /\ treasures' = g.treasures
    /\ power_ups' = g.power_ups
    /\ projectiles' = g.projectiles
    /\ last' = g.obs

\* the state is the Game g
IsGame(g) ==
    /\ state = g.state
    /\ level = g.level
    /\ score = g.score
    /\ camera_x = g.camera_x
    /\ debug_mode = g.debug_mode
    /\ player = g.player
    /\ level_goal = g.level_goal
    /\ ent = g.ent
    /\ all_sprites = g.all_sprites
    /\ enemies = g.enemies
    /\ treasures = g.treasures
    /\ power_ups = g.power_ups
    /\ projectiles = g.projectiles
    /\ last = g.obs

\* Game.__init__
Init ==
    \E lay \in Layouts :
        /\ LayoutOK(lay)
        /\ IsGame(Collect(InitGame(NewGame, lay)))

\* the step op(arg) begins: nothing observed yet
Step(op, arg) ==
    [Game EXCEPT !.obs.op = op, !.obs.arg = arg, !.obs.pre = ent[player]]

\* the animation counters stay within the explored ticks and the tables
TimersInRange ==
    /\ ent[level_goal].glow_timer < MaxTicks
    /\ \A id \in DOMAIN ent :
        /\ ent[id].kind = "treasure" => ent[id].bounce_timer < Len(SinBob5)
        /\ ent[id].kind = "power_up" => ent[id].float_timer < Len(SinBob8)

\* the layouts a KEYDOWN event can draw from: init_game runs on RETURN in the menu
KeyLayouts(key) ==
    IF key = "K_RETURN" /\ state = "menu" THEN Layouts ELSE {LayoutNear}

\* the layouts a tick can draw from: generate_level_content runs when the goal
\* is touched below the final level, which needs the player within reach of it
TickLayouts ==
    IF state = "playing" /\ level < FINAL_LEVEL
       /\ Abs(ent[player].x - ent[level_goal].x) < 200
    THEN Layouts ELSE {LayoutNear}

\* the direction streams a tick can draw from: an enemy redraws its direction
\* when its move_timer passes 60
TickDirs ==
    IF state = "playing"
       /\ \E i \in 1..Len(all_sprites) :
            /\ ent[all_sprites[i]].kind = "enemy"
            /\ ent[all_sprites[i]].move_timer + 1 > 60
    THEN DirStreams ELSE {[first |-> 1, alternate |-> FALSE]}

\* handle_events takes one KEYDOWN event
KeyDown(key) ==
    \E lay \in KeyLayouts(key) :
        /\ LayoutOK(lay)
        /\ SetGame(Collect(HandleKey(Step("key", key), key, lay)))

\* one frame's Game.update with the movement keys `keys` held
Tick(keys) ==
    /\ state = "playing" => TimersInRange
    /\ "K_RIGHT" \in keys => ent[player].x < MaxPlayerX
    /\ \E dirs \in TickDirs, lay \in TickLayouts :
        /\ LayoutOK(lay)
        /\ SetGame(Collect(Update(Step("tick", ""), keys, dirs, lay)))

\* Game.__init__ with the draw LayoutClear
InitLevels ==
    /\ LayoutOK(LayoutClear)
    /\ IsGame(Collect(InitGame(NewGame, LayoutClear)))

\* every enemy that redraws its direction in the tick draws -1
DirLeft == [first |-> -1, alternate |-> FALSE]

\* handle_events takes one KEYDOWN event; init_game draws from LevelLayouts
KeyDownLevels(key) ==
    \E lay \in (IF key = "K_RETURN" /\ state = "menu" THEN LevelLayouts
                ELSE {LayoutClear}) :
        /\ LayoutOK(lay)
        /\ SetGame(Collect(HandleKey(Step("key", key), key, lay)))

\* one frame's Game.update on the run to the goal: the level advance draws
\* from LevelLayouts
Run(keys) ==
    /\ state = "playing" =>
          /\ ent[level_goal].glow_timer < MaxRunTicks
          /\ \A id \in DOMAIN ent :
                /\ ent[id].kind = "treasure" => ent[id].bounce_timer < Len(SinBob5)
                /\ ent[id].kind = "power_up" => ent[id].float_timer < Len(SinBob8)
    /\ \E lay \in (IF TickLayouts = Layouts THEN LevelLayouts ELSE {LayoutClear}) :
          /\ LayoutOK(lay)
          /\ SetGame(Collect(Update(Step("tick", ""), keys, DirLeft, lay)))

\* a draw with one enemy that walks ahead of the player towards the goal
LayoutEscort ==
    [ex      |-> <<1812, 2200, 2250, 2300, 2350, 2400, 2450, 2500, 2550, 2600, 2650, 2700, 2750, 2800>>,
     edir    |-> <<1, -1, -1, -1, -1, -1, -1, -1, -1, -1, -1, -1, -1, -1>>,
     tx      |-> <<2200, 2300, 2400, 2500, 2600, 2700, 2800, 2900>>,
     ty      |-> <<650, 680, 600, 620, 640, 660, 670, 610>>,
     tpoints |-> <<150, 400, 275, 300, 200, 250, 350, 160>>,
     px      |-> <<2200, 2400, 2700>>,
     py      |-> <<650, 580, 670>>,
     ptype   |-> <<"shield", "fireball", "bow">>]

FinalLayouts == {LayoutClear, LayoutMid, LayoutEscort}

\* every enemy that redraws its direction in the tick draws 1
DirRight == [first |-> 1, alternate |-> FALSE]

\* the direction streams of a tick on the run through the final level
FinalDirs ==
    IF level = FINAL_LEVEL /\ TickDirs = DirStreams THEN {DirLeft, DirRight}
    ELSE {DirLeft}

\* handle_events takes the RETURN key in the menu; init_game draws from
\* FinalLayouts
StartFinal ==
    /\ state = "menu"
    /\ \E lay \in FinalLayouts :
          /\ LayoutOK(lay)
          /\ SetGame(Collect(HandleKey(Step("key", "K_RETURN"), "K_RETURN", lay)))

\* one frame's Game.update on the run to the last goal: the level advance
\* draws from FinalLayouts, the enemies of the final level draw either way
RunFinal(keys) ==
    /\ state = "playing"
    /\ ent[level_goal].glow_timer < MaxRunTicks
    /\ \A id \in DOMAIN ent :
          /\ ent[id].kind = "treasure" => ent[id].bounce_timer < Len(SinBob5)
          /\ ent[id].kind = "power_up" => ent[id].float_timer < Len(SinBob8)
    /\ \E dirs \in FinalDirs,
          lay \in (IF TickLayouts = Layouts THEN FinalLayouts ELSE {LayoutClear}) :
          /\ LayoutOK(lay)
          /\ SetGame(Collect(Update(Step("tick", ""), keys, dirs, lay)))

\* a draw with two enemies side by side on the way, the rest far off
LayoutPair ==
    [ex      |-> <<600, 610, 2250, 2300, 2350, 2400, 2450, 2500, 2550, 2600, 2650, 2700, 2750, 2800>>,
     edir    |-> <<-1, -1, -1, -1, -1, -1, -1, -1, -1, -1, -1, -1, -1, -1>>,
     tx      |-> <<2200, 2300, 2400, 2500, 2600, 2700, 2800, 2900>>,
     ty      |-> <<650, 680, 600, 620, 640, 660, 670, 610>>,
     tpoints |-> <<150, 400, 275, 300, 200, 250, 350, 160>>,
     px      |-> <<2200, 2400, 2700>>,
     py      |-> <<650, 580, 670>>,
     ptype   |-> <<"shield", "fireball", "bow">>]

\* the enemies of level lvl outlast one punch of the player
Tough(lvl) == NewEnemy(0, 0, lvl, 1).health > ent[player].punch_damage

\* an enemy is within CombatRange of the player
EnemyNear ==
    \E i \in 1..Len(enemies) :
        Abs(ent[enemies[i]].x - ent[player].x) < CombatRange

\* handle_events takes the RETURN key in the menu; init_game draws LayoutClear
StartCombat ==
    /\ state = "menu"
    /\ LayoutOK(LayoutClear)
    /\ SetGame(Collect(HandleKey(Step("key", "K_RETURN"), "K_RETURN", LayoutClear)))

\* handle_events takes the punch key or a power hotkey while an enemy of a
\* tough level is near; one swing and one projectile at a time
FightKey(key) ==
    /\ state = "playing"
    /\ Tough(level)
    /\ EnemyNear
    /\ key = "K_SPACE" => ~ent[player].is_punching
    /\ key # "K_SPACE" => projectiles = <<>>
    /\ SetGame(Collect(HandleKey(Step("key", key), key, LayoutClear)))

\* one frame's Game.update on the run to the fight: the advance into the
\* first tough level draws LayoutPair, the advances before it LayoutClear
RunCombat(keys) ==
    /\ state = "playing"
    /\ ent[level_goal].glow_timer < (IF Tough(level) THEN MaxCombatTicks ELSE MaxRunTicks)
    /\ \A id \in DOMAIN ent :
          /\ ent[id].kind = "treasure" => ent[id].bounce_timer < Len(SinBob5)
          /\ ent[id].kind = "power_up" => ent[id].float_timer < Len(SinBob8)
    /\ \E lay \in (IF Tough(level + 1) THEN {LayoutPair} ELSE {LayoutClear}) :
          /\ LayoutOK(lay)
          /\ SetGame(Collect(Update(Step("tick", ""), keys, DirLeft, lay)))

\* handle_events takes a power hotkey on the first level once the player has
\* walked to MinShotX and the camera has left the world's left end; one
\* projectile at a time
FarShotKey(key) ==
    /\ state = "playing"
    /\ level = 1
    /\ camera_x > 0
    /\ ent[player].x >= MinShotX
    /\ projectiles = <<>>
    /\ SetGame(Collect(HandleKey(Step("key", key), key, LayoutClear)))

\* a draw with treasures and a power-up near the start: two treasures on the
\* player's way, one above its head, the power-up on its way; the enemies far
LayoutLoot ==
    [ex      |-> <<2150, 2200, 2250, 2300, 2350, 2400, 2450, 2500, 2550, 2600, 2650, 2700, 2750, 2800>>,
     edir    |-> <<-1, -1, -1, -1, -1, -1, -1, -1, -1, -1, -1, -1, -1, -1>>,
     tx      |-> <<190, 260, 330, 2900, 2600, 2700, 2800, 2900>>,
     ty      |-> <<650, 680, 600, 620, 640, 660, 670, 610>>,
     tpoints |-> <<150, 400, 275, 300, 200, 250, 350, 160>>,
     px      |-> <<300, 2400, 2700>>,
     py      |-> <<650, 580, 670>>,
     ptype   |-> <<"laser_eyes", "fireball", "bow">>]

\* handle_events takes the RETURN key in the menu; init_game draws LayoutLoot
StartLoot ==
    /\ state = "menu"
    /\ LayoutOK(LayoutLoot)
    /\ SetGame(Collect(HandleKey(Step("key", "K_RETURN"), "K_RETURN", LayoutLoot)))

\* one frame's Game.update among the items of LayoutLoot
RunLoot(keys) ==
    /\ state = "playing"
    /\ ent[level_goal].glow_timer < MaxLootTicks
    /\ SetGame(Collect(Update(Step("tick", ""), keys, DirLeft, LayoutClear)))

\* the movement keys held in a tick of the jumping game: on the first level
\* the player walks right and, from LeapX on, may also jump; in the first
\* ticks of the second level every movement key is tried
JumpKeys ==
    IF level = 1
    THEN {{"K_RIGHT"}} \cup
         (IF ent[player].x >= LeapX THEN {{"K_RIGHT", "K_UP"}} ELSE {})
    ELSE {{}, {"K_RIGHT"}, {"K_LEFT"}, {"K_UP"}, {"K_DOWN"}}

\* one frame's Game.update of the jumping game; every draw is LayoutClear
RunJump(keys) ==
    /\ state = "playing"
    /\ level <= 2
    /\ ent[level_goal].glow_timer < (IF level = 1 THEN MaxLeapTicks ELSE MaxJumpTicks)
    /\ LayoutOK(LayoutClear)
    /\ SetGame(Collect(Update(Step("tick", ""), keys, DirLeft, LayoutClear)))

\* handle_events takes the RETURN key in the menu; init_game draws LayoutMid
StartReplay ==
    /\ state = "menu"
    /\ LayoutOK(LayoutMid)
    /\ SetGame(Collect(HandleKey(Step("key", "K_RETURN"), "K_RETURN", LayoutMid)))

\* handle_events takes the RETURN key on the game-over screen
AckGameOver ==
    /\ state = "game_over"
    /\ SetGame(Collect(HandleKey(Step("key", "K_RETURN"), "K_RETURN", LayoutClear)))

\* handle_events takes the ESCAPE key during play or pause
PauseReplay ==
    /\ state \in {"playing", "paused"}
    /\ SetGame(Collect(HandleKey(Step("key", "K_ESCAPE"), "K_ESCAPE", LayoutClear)))

\* one frame's Game.update of a game played again and again: the advances
\* out of the levels between the first and the last but one draw LayoutClear
\* or LayoutEscort, the others LayoutClear
RunReplay(keys) ==
    /\ state = "playing"
    /\ ent[level_goal].glow_timer < MaxRunTicks
    /\ \A id \in DOMAIN ent :
          /\ ent[id].kind = "treasure" => ent[id].bounce_timer < Len(SinBob5)
          /\ ent[id].kind = "power_up" => ent[id].float_timer < Len(SinBob8)
    /\ \E dirs \in FinalDirs,
          lay \in (IF TickLayouts = Layouts /\ 1 < level /\ level < FINAL_LEVEL - 1
                   THEN {LayoutClear, LayoutEscort} ELSE {LayoutClear}) :
          /\ LayoutOK(lay)
          /\ SetGame(Collect(Update(Step("tick", ""), keys, dirs, lay)))

----------------------------------------------------------------------------
(* Calls of the Player's methods, one by one *)

\* the damage values of the enemies of levels 1..5
EnemyDamages == {NewEnemy(0, 0, lvl, 1).damage : lvl \in 1..FINAL_LEVEL}

\* add_power_up calls a player has taken, read off what they raised
\* (exact while no round has been fired)
PickupCount(p) ==
      ((p.weapon_ammo.fireball - 10) \div 10)
    + ((p.weapon_ammo.gun - 20) \div 30)
    + ((p.weapon_ammo.laser_eyes - 5) \div 8)
    + ((p.weapon_ammo.bow - 12) \div 15)
    + ((p.max_health - 100) \div 50)
    + ((p.punch_damage - 35) \div 15)

CallTakeDamage(damage) ==
    SetGame([Step("take_damage", damage) EXCEPT
                !.ent[player] = TakeDamage(ent[player], damage)])

CallAddPowerUp(power_type) ==
    /\ PickupCount(ent[player]) < MaxPickups
    /\ SetGame([Step("add_power_up", power_type) EXCEPT
                   !.ent[player] = AddPowerUp(ent[player], power_type)])

CallUsePower(power_type) ==
    SetGame(UsePower(Step("use_power", power_type), power_type))

CallUpdate(keys) ==
    SetGame([Step("update", "") EXCEPT !.ent[player] = PlayerUpdate(ent[player], keys)])

----------------------------------------------------------------------------
(* Specifications *)

\* play from the menu: start, then walk right or stand, tick by tick
Next ==
    \/ KeyDown("K_RETURN")
    \/ \E keys \in {{}, {"K_RIGHT"}} : Tick(keys)

Spec == Init /\ [][Next]_vars

\* the first ticks of play with the punch key
NextPunch ==
    \/ \E key \in {"K_RETURN", "K_SPACE"} : KeyDown(key)
    \/ /\ ent[level_goal].glow_timer < MaxPunchTicks
       /\ \E keys \in {{}, {"K_RIGHT"}} : Tick(keys)

SpecPunch == Init /\ [][NextPunch]_vars

\* the player under hits, shield pickups and its own update
NextPlayer ==
    \/ \E damage \in EnemyDamages : CallTakeDamage(damage)
    \/ CallAddPowerUp("shield")
    \/ CallUpdate({})

SpecPlayer == Init /\ [][NextPlayer]_vars

\* pickups of every kind, on a player that may have been hit
NextPowerUp ==
    \/ \E power_type \in PowerKinds : CallAddPowerUp(power_type)
    \/ CallTakeDamage(NewEnemy(0, 0, FINAL_LEVEL, 1).damage)

SpecPowerUp == Init /\ [][NextPowerUp]_vars

\* the power fired by the projectiles in flight is power_type
OnlyFired(power_type) ==
    last.op = "use_power" /\ projectiles # <<>> => last.arg = power_type

\* pickups, then one power used until it is empty and once more
NextAmmo ==
    \/ /\ projectiles = <<>>
       /\ \E power_type \in PowerKinds : CallAddPowerUp(power_type)
    \/ \E power_type \in PowerKinds :
          /\ OnlyFired(power_type)
          /\ CallUsePower(power_type)

SpecAmmo == Init /\ [][NextAmmo]_vars

\* the key of the projectiles in flight is key
OnlyKey(key) ==
    \A i \in 1..Len(projectiles) :
        ent[projectiles[i]].damage = (IF key = "K_1" THEN 40 ELSE 20)

\* the power hotkeys at the start of play, with no tick in between
NextFire ==
    \/ KeyDown("K_RETURN")
    \/ \E key \in {"K_1", "K_2"} : OnlyKey(key) /\ KeyDown(key)
    \/ KeyDown("K_6")

SpecFire == Init /\ [][NextFire]_vars

\* one game from the menu to its end, walking right; the pause key at any
\* time, the other keys outside play
NextLevels ==
    \/ /\ state = "menu" => ent[player] = NewPlayer(100, SCREEN_HEIGHT - 150)
       /\ KeyDownLevels("K_RETURN")
    \/ KeyDownLevels("K_ESCAPE")
    \/ /\ state # "playing"
       /\ \E key \in {"K_SPACE", "K_1", "K_d"} : KeyDownLevels(key)
    \/ Run({"K_RIGHT"})

SpecLevels == InitLevels /\ [][NextLevels]_vars

\* one game from the menu, walking right through the five levels
NextFinal ==
    \/ StartFinal
    \/ RunFinal({"K_RIGHT"})

SpecFinal == InitLevels /\ [][NextFinal]_vars

\* a walk through the easy levels, then a fight with punches, fireballs and
\* bullets against the two enemies of LayoutPair
NextCombat ==
    \/ StartCombat
    \/ \E key \in {"K_SPACE", "K_1", "K_2"} : FightKey(key)
    \/ RunCombat({"K_RIGHT"})

SpecCombat == InitLevels /\ [][NextCombat]_vars

\* the walk through the first level with shots fired far from the start
NextFarShot ==
    \/ StartCombat
    \/ \E key \in {"K_1", "K_2"} : FarShotKey(key)
    \/ level = 1 /\ RunCombat({"K_RIGHT"})

SpecFarShot == InitLevels /\ [][NextFarShot]_vars

\* the first ticks of a game among treasures and a power-up: standing,
\* walking right, jumping
NextLoot ==
    \/ StartLoot
    \/ \E keys \in {{}, {"K_RIGHT"}, {"K_RIGHT", "K_UP"}} : RunLoot(keys)

SpecLoot == InitLevels /\ [][NextLoot]_vars

\* a walk to the first goal, over it or into it, and the first ticks of the
\* second level with every movement key
NextJump ==
    \/ StartCombat
    \/ \E keys \in JumpKeys : RunJump(keys)

SpecJump == InitLevels /\ [][NextJump]_vars

\* game after game from the menu: walk right until the last goal or the
\* player's death, acknowledge the game-over screen, start again; the pause
\* key at any time
NextReplay ==
    \/ StartReplay
    \/ AckGameOver
    \/ PauseReplay
    \/ RunReplay({"K_RIGHT"})

SpecReplay == InitLevels /\ [][NextReplay]_vars

----------------------------------------------------------------------------
(* Properties *)

\* C1: in every reachable state the player's health is at least 0 and at most
\* max_health, whatever hits, shield pickups and updates came before.
C1_HealthInRange ==
    /\ 0 <= ent[player].health
    /\ ent[player].health <= ent[player].max_health

\* a hit larger than the health left has floored the health at 0
C1_FloorReached ==
    /\ last.op = "take_damage"
    /\ ~last.pre.invulnerable
    /\ last.pre.health > 0
    /\ last.pre.health < last.arg
    /\ ent[player].health = 0

\* C2: in every reachable state the player's invulnerability timer is within
\* 0..invuln_duration: never negative, never above the fixed duration.
C2_InvulnTimerInRange ==
    /\ 0 <= ent[player].invuln_timer
    /\ ent[player].invuln_timer <= invuln_duration

\* a window has run from the full duration down to 0 and has ended
C2_WindowRanOut ==
    /\ last.op = "tick"
    /\ last.pre.invulnerable
    /\ last.pre.invuln_timer = 1
    /\ ent[player].invuln_timer = 0
    /\ ~ent[player].invulnerable

\* C3: take_damage(amount) on an invulnerable player changes nothing of the
\* player (health, invulnerable, invuln_timer and all the rest), for every amount.
C3_TakeDamageInvulnerableNoOp ==
    (last.op = "take_damage" /\ last.pre.invulnerable) => ent[player] = last.pre

\* take_damage was called in the middle of a window, on a player with health left
C3_HitWhileInvulnerable ==
    /\ last.op = "take_damage"
    /\ last.pre.invulnerable
    /\ last.pre.invuln_timer < invuln_duration
    /\ last.pre.health > 0

\* the enemies within the 50-unit contact radius of the player
InContact ==
    {id \in Range(enemies) :
        Dist2(RectOf(ent[player]), RectOf(ent[id])) < 50 * 50}

\* C4: a tick in which an enemy within the contact radius hits the player takes
\* that enemy's damage off the health (floored at 0) and starts the window at
\* the full duration; a Playing tick that begins with the window running and
\* leaves it running (timer 2..60 before the tick, so the tick after the hit
\* too) does not lower the health, whether or not enemies are within the radius.
C4_ContactHitThenWindow ==
    /\ (last.op = "tick" /\ last.contact # <<>>) =>
          LET c == last.contact[1]
          IN  /\ ~last.pre.invulnerable \/ last.pre.invuln_timer = 1
              /\ c.enemy \in InContact
              /\ c.damage = ent[c.enemy].damage
              /\ c.before = last.pre.health
              /\ c.after = Max(0, last.pre.health - ent[c.enemy].damage)
              /\ last.powered = <<>> => ent[player].health = c.after
              /\ ent[player].invulnerable
              /\ ent[player].invuln_timer = invuln_duration
    /\ (last.op = "tick" /\ last.pre.invulnerable /\ last.pre.invuln_timer > 1) =>
          /\ last.contact = <<>>
          /\ ent[player].health >= last.pre.health

\* the tick after a hit: the window is running, an enemy is still within the
\* radius, and the health is what the hit left
C4_TickAfterHit ==
    /\ last.op = "tick"
    /\ last.pre.invulnerable
    /\ last.pre.invuln_timer = invuln_duration
    /\ last.pre.health < last.pre.max_health
    /\ InContact # {}
    /\ ent[player].health = last.pre.health

\* the player's punch hit-rectangle (80 x 60 at punch_x, punch_y) with the
\* 10-unit margin on every side
ExpandedPunchRect(p) == Rect(p.punch_x - 10, p.punch_y - 10, 80 + 20, 60 + 20)

\* C5: the punch pass reduces an enemy's health only in a tick in which
\* is_punching is true at the collision check and the enemy's rectangle overlaps
\* the punch hit-rectangle grown by 10; an enemy that loses health or leaves the
\* live enemies in a tick was hit by the punch pass, shot or swept, so a tick
\* with is_punching false takes punch damage off no enemy.
C5_PunchOnlyWhilePunchingAndOverlapping ==
    /\ [](\A i \in 1..Len(last.punched) :
            /\ last.op = "tick"
            /\ ent[player].is_punching
            /\ ColliderRect(ExpandedPunchRect(ent[player]), last.punched[i].rect)
            /\ last.punched[i].after = last.punched[i].before - ent[player].punch_damage)
    /\ [][(last'.op = "tick" /\ ~last'.advanced) =>
            \A id \in Range(enemies) :
                (\/ id \notin Range(enemies')
                 \/ ent'[id].health < ent[id].health) =>
                    \/ \E i \in 1..Len(last'.punched) : last'.punched[i].id = id
                    \/ \E i \in 1..Len(last'.shot) : last'.shot[i].id = id
                    \/ \E i \in 1..Len(last'.swept) : last'.swept[i] = id]_vars

\* a punch landed on an enemy in reach
C5_PunchLanded ==
    /\ last.op = "tick"
    /\ last.punched # <<>>
    /\ ent[player].is_punching
    /\ ColliderRect(ExpandedPunchRect(ent[player]), last.punched[1].rect)

\* C6: punch() on a player whose punch is active changes nothing (is_punching
\* and punch_timer stay as they are); on a player not punching it sets
\* is_punching and sets punch_timer to punch_duration (10), nothing else.
C6_PunchIdempotentWhileActive ==
    (last.op = "key" /\ last.arg = "K_SPACE" /\ state = "playing") =>
        IF last.pre.is_punching
        THEN ent[player] = last.pre
        ELSE ent[player] = [last.pre EXCEPT !.is_punching = TRUE,
                                            !.punch_timer = punch_duration]

\* the punch key was pressed again in the middle of a punch
C6_PressedMidPunch ==
    /\ last.op = "key"
    /\ last.arg = "K_SPACE"
    /\ state = "playing"
    /\ last.pre.is_punching
    /\ last.pre.punch_timer < punch_duration
    /\ ent[player].punch_timer = last.pre.punch_timer

\* a freshly spawned level-1 enemy
FreshLevel1(e) == e.health = 25 /\ e.max_health = 25 /\ e.points = 100

\* C7: in a tick in which a player with punch damage 35 is punching, every
\* fresh level-1 enemy (health 25, points 100) whose rectangle overlaps the
\* expanded punch rectangle loses 35 health and leaves the live enemies in that
\* tick; when it is the only enemy hit and nothing else scores, the score grows
\* by exactly 100.
C7_FreshPunchKills ==
    [][(/\ last'.op = "tick"
        /\ state = "playing"
        /\ ~last'.advanced
        /\ ent'[player].is_punching
        /\ ent'[player].punch_damage = 35) =>
          /\ \A id \in Range(enemies) :
                LET e == EnemyUpdate(ent[id], ent[id].move_direction)
                IN  (/\ FreshLevel1(ent[id])
                     /\ ent[id].move_timer < 60
                     /\ ColliderRect(ExpandedPunchRect(ent'[player]), RectOf(e))) =>
                        /\ id \notin Range(enemies')
                        /\ id \notin Range(all_sprites')
                        /\ \E i \in 1..Len(last'.punched) :
                              /\ last'.punched[i].id = id
                              /\ last'.punched[i].before = 25
                              /\ last'.punched[i].after = 25 - 35
          /\ (Len(last'.punched) = 1 /\ last'.picked = <<>> /\ last'.shot = <<>>) =>
                score' = score + 100]_vars

\* the punch key pressed at world start: the first tick removed the one enemy
\* in reach and the score went from 0 to 100
C7_FirstPunchKilled ==
    /\ last.op = "tick"
    /\ last.pre.x = 100 /\ last.pre.y = SCREEN_HEIGHT - 150
    /\ last.pre.punch_timer = punch_duration
    /\ last.pre.punch_damage = 35
    /\ Len(last.punched) = 1
    /\ last.punched[1].before = 25
    /\ last.punched[1].after = -10
    /\ last.punched[1].id \notin Range(enemies)
    /\ score = 100

\* occurrences of e in the sequence s
Count(s, e) == Len(SelectSeq(s, LAMBDA v : v = e))

\* the rounds one pickup of an ammo kind adds
AmmoPerPickup == [fireball |-> 10, gun |-> 30, laser_eyes |-> 8, bow |-> 15]

\* C8: after add_power_up(kind) the kind is in the unlocked list exactly once
\* (appended if it was missing, the list untouched if it was there) and no kind
\* is ever there twice, while the stat effect is applied by every call:
\* fireball/gun/laser_eyes/bow ammo +10/+30/+8/+15, shield max_health +50 and
\* health = min(health + 25, new max_health), sword punch_damage +15; nothing
\* else of the player changes.
C8_AddPowerUpEffects ==
    /\ \A k \in PowerKinds : Count(ent[player].power_ups, k) <= 1
    /\ last.op = "add_power_up" =>
          LET k == last.arg
              p == last.pre
              q == ent[player]
          IN  /\ Count(q.power_ups, k) = 1
              /\ q.power_ups = IF Contains(p.power_ups, k) THEN p.power_ups
                               ELSE Append(p.power_ups, k)
              /\ \A a \in AmmoKinds :
                    q.weapon_ammo[a] =
                        p.weapon_ammo[a] + (IF a = k THEN AmmoPerPickup[a] ELSE 0)
              /\ q.max_health = p.max_health + (IF k = "shield" THEN 50 ELSE 0)
              /\ q.health = IF k = "shield"
                            THEN Min(p.health + 25, p.max_health + 50)
                            ELSE p.health
              /\ q.punch_damage = p.punch_damage + (IF k = "sword" THEN 15 ELSE 0)
              /\ [q EXCEPT !.power_ups = p.power_ups, !.weapon_ammo = p.weapon_ammo,
                           !.max_health = p.max_health, !.health = p.health,
                           !.punch_damage = p.punch_damage] = p

\* a second shield pickup on a hurt player: the list keeps one shield, the
\* maximum has grown twice
C8_SecondShield ==
    /\ last.op = "add_power_up"
    /\ last.arg = "shield"
    /\ Contains(last.pre.power_ups, "shield")
    /\ last.pre.health < last.pre.max_health
    /\ Count(ent[player].power_ups, "shield") = 1
    /\ ent[player].max_health = 200

\* C9: no ammo count is ever negative, and use_power(kind) for an ammo kind
\* whose ammo is 0 spawns no projectile and leaves the ammo at 0 (it changes
\* nothing at all).
C9_AmmoNeverNegative ==
    /\ [](\A k \in AmmoKinds : ent[player].weapon_ammo[k] >= 0)
    /\ [][(/\ last'.op = "use_power"
            /\ last'.arg \in AmmoKinds
            /\ ent[player].weapon_ammo[last'.arg] = 0) =>
              /\ last'.fired = <<>>
              /\ projectiles' = projectiles
              /\ all_sprites' = all_sprites
              /\ ent' = ent
              /\ ent'[player].weapon_ammo[last'.arg] = 0]_vars

\* laser eyes, unlocked by a pickup, were fired until empty and used once more
C9_EmptyLaserCall ==
    /\ last.op = "use_power"
    /\ last.arg = "laser_eyes"
    /\ Contains(last.pre.power_ups, "laser_eyes")
    /\ last.pre.weapon_ammo.laser_eyes = 0
    /\ ent[player].weapon_ammo.laser_eyes = 0
    /\ Len(projectiles) >= 13

\* the projectiles in flight that the power kind k fires (told by their damage)
InFlight(k) ==
    Cardinality({i \in 1..Len(projectiles) :
                    ent[projectiles[i]].damage = (IF k = "fireball" THEN 40 ELSE 20)})

\* C10: with n rounds of an unlocked ammo kind, each use_power call while
\* rounds are left spawns exactly one projectile and takes exactly one round;
\* from the start of play (fireball 10, gun 20) the projectiles spawned and the
\* rounds left always add up to n, so the n-th call leaves 0; a call with no
\* round left spawns nothing.
C10_RoundsSpawnOneEach ==
    /\ [](state = "playing" =>
            \A k \in {"fireball", "gun"} :
                InFlight(k) + ent[player].weapon_ammo[k]
                    = NewPlayer(0, 0).weapon_ammo[k])
    /\ [][(last'.op = "key" /\ last'.arg \in {"K_1", "K_2"} /\ state = "playing") =>
            LET k == PowerKeys[last'.arg]
                n == ent[player].weapon_ammo[k]
            IN  IF n > 0
                THEN /\ Len(projectiles') = Len(projectiles) + 1
                     /\ SubSeq(projectiles', 1, Len(projectiles)) = projectiles
                     /\ projectiles'[Len(projectiles')] \notin DOMAIN ent
                     /\ ent'[projectiles'[Len(projectiles')]].kind = "projectile"
                     /\ all_sprites' = Append(all_sprites, projectiles'[Len(projectiles')])
                     /\ ent'[player].weapon_ammo[k] = n - 1
                     /\ last'.fired = <<k>>
                ELSE /\ projectiles' = projectiles
                     /\ all_sprites' = all_sprites
                     /\ ent' = ent
                     /\ last'.fired = <<>>]_vars

\* the eleventh fireball key press: ten fireballs are out, none is added
C10_EleventhFireball ==
    /\ last.op = "key"
    /\ last.arg = "K_1"
    /\ state = "playing"
    /\ last.pre.weapon_ammo.fireball = 0
    /\ ent[player].weapon_ammo.fireball = 0
    /\ InFlight("fireball") = 10
    /\ Len(projectiles) = 10

\* everything of the game but the observation
GameVars ==
    <<state, level, score, camera_x, debug_mode, player, level_goal, ent,
      all_sprites, enemies, treasures, power_ups, projectiles>>

\* C11: use_power(kind) for a kind that is not unlocked (whatever its ammo:
\* a fresh player has bow and laser-eyes rounds but neither power), or for
\* sword or shield (unlocked or not), spawns no projectile and changes
\* nothing of the player or the game.
C11_UsePowerLockedOrMeleeNoOp ==
    [][(/\ last'.op = "use_power"
        /\ \/ ~Contains(ent[player].power_ups, last'.arg)
           \/ last'.arg \in {"sword", "shield"}) =>
          /\ UNCHANGED GameVars
          /\ last'.fired = <<>>]_vars

\* use_power(bow) on a player that has 12 arrows and no bow
C11_LockedBowCall ==
    /\ last.op = "use_power"
    /\ last.arg = "bow"
    /\ ~Contains(last.pre.power_ups, "bow")
    /\ last.pre.weapon_ammo.bow = 12
    /\ ent[player] = last.pre
    /\ projectiles = <<>>

\* the player's centre is within the goal-touch distance of the level goal
TouchesGoal(p, goal) == Dist2(RectOf(p), RectOf(goal)) < 80 * 80

\* C12: a Playing tick at level 5 that ends with the player's centre within 80
\* of the level goal's centre makes the level 6 and the mode game_over (the
\* victory screen is the one for level > 5); nothing is regenerated: no sprite
\* is created, the goal stays the goal and the player stays where it walked.
C12_GoalAtFinalLevelIsVictory ==
    [][(/\ last'.op = "tick"
        /\ state = "playing"
        /\ level = FINAL_LEVEL
        /\ TouchesGoal(ent'[player], ent'[level_goal])) =>
          /\ last'.advanced
          /\ level' = 6
          /\ state' = "game_over"
          /\ level' > 5
          /\ DOMAIN ent' \subseteq DOMAIN ent
          /\ level_goal' = level_goal
          /\ player' = player
          /\ ent'[player].x = ent[player].x + ent'[player].vel_x]_vars

\* the goal of level 5 was touched by a living player
C12_Victory ==
    /\ last.op = "tick"
    /\ last.advanced
    /\ level = 6
    /\ state = "game_over"
    /\ ent[player].health > 0
    /\ TouchesGoal(ent[player], ent[level_goal])

\* C13: a Playing tick at level L in 1..4 in which the goal is touched makes
\* the level exactly L + 1, puts the player at (100, SCREEN_HEIGHT - 150) and
\* the camera at 0; the advance changes neither health, unlocked powers, ammo
\* nor score (they change in that tick only by a contact hit, a pickup or a
\* kill of the same tick); and the level never changes by more than one step
\* in a tick, nor without the goal being touched.
C13_AdvanceBelowFinalLevel ==
    /\ [][(/\ last'.op = "tick"
            /\ state = "playing"
            /\ level \in 1..(FINAL_LEVEL - 1)
            /\ last'.advanced) =>
              /\ level' = level + 1
              /\ player' = player
              /\ ent'[player].x = 100
              /\ ent'[player].y = SCREEN_HEIGHT - 150
              /\ camera_x' = 0
              /\ (last'.contact = <<>> /\ last'.powered = <<>>) =>
                    ent'[player].health = ent[player].health
              /\ last'.powered = <<>> =>
                    /\ ent'[player].power_ups = ent[player].power_ups
                    /\ ent'[player].weapon_ammo = ent[player].weapon_ammo
                    /\ ent'[player].max_health = ent[player].max_health
              /\ (last'.picked = <<>> /\ last'.punched = <<>> /\ last'.shot = <<>>) =>
                    score' = score]_vars
    /\ [][last'.op = "tick" =>
              \/ level' = level /\ ~last'.advanced
              \/ level' = level + 1 /\ last'.advanced /\ state = "playing"]_vars

\* level 1 was left with hits taken and a treasure scored: level 2 begins at
\* the world start with the same health and score
C13_SecondLevelBegins ==
    /\ last.op = "tick"
    /\ last.advanced
    /\ level = 2
    /\ state = "playing"
    /\ ent[player].x = 100
    /\ ent[player].y = SCREEN_HEIGHT - 150
    /\ camera_x = 0
    /\ ent[player].health = last.pre.health
    /\ ent[player].health < 100
    /\ score > 0

\* C14: at the end of a tick that advanced to level L (L <= 5) the live
\* enemies, treasures and power-ups are only the ones spawned for level L in
\* that tick: every enemy has the stats of level L and has not moved yet, no
\* treasure and no power-up has been animated yet.
C14_RegenerationReplacesCollections ==
    (last.op = "tick" /\ last.advanced /\ level <= FINAL_LEVEL) =>
        /\ \A id \in Range(enemies) :
              /\ ent[id].max_health = NewEnemy(0, 0, level, 1).max_health
              /\ ent[id].move_timer = 0
        /\ \A id \in Range(treasures) : ent[id].bounce_timer = 0
        /\ \A id \in Range(power_ups) : ent[id].float_timer = 0

\* C15: at the end of every Playing tick no sprite other than the player and
\* the current level goal is left with x below -200, above world_width + 200
\* or more than 2000 from the player's x (all of them were removed), while the
\* player and the current goal are still there and were not swept, however
\* far apart they are.
C15_CleanupSweepsFarSprites ==
    [][(last'.op = "tick" /\ state = "playing") =>
          /\ Contains(all_sprites', player')
          /\ Contains(all_sprites', level_goal')
          /\ \A i \in 1..Len(last'.swept) :
                last'.swept[i] \notin {player', level_goal'}
          /\ \A id \in Range(all_sprites') \ {player', level_goal'} :
                /\ ent'[id].x >= -200
                /\ ent'[id].x <= world_width + 200
                /\ Abs(ent'[id].x - ent'[player].x) <= 2000]_vars

\* a tick swept sprites while the goal, 2700 from the player, stayed
C15_SweptButGoalKept ==
    /\ last.op = "tick"
    /\ Len(last.swept) >= 10
    /\ Contains(all_sprites, level_goal)
    /\ Contains(all_sprites, player)
    /\ ent[level_goal].x - ent[player].x > 2500


\* C16: whenever the player's health is <= 0 at the end of a Playing tick,
\* the mode is game_over in that same tick and the level shown by the
\* game-over screen is not above 5 (defeat framing); the game is never in
\* Playing with health <= 0
C16_DeathIsDefeat ==
    /\ [](state = "playing" => ent[player].health > 0)
    /\ [][(state = "playing" /\ last'.op = "tick" /\ ent'[player'].health <= 0)
            => (state' = "game_over" /\ level' <= FINAL_LEVEL)]_vars

\* the values of GameState the code assigns or tests, LEVEL_COMPLETE left out
ModesInUse == {"menu", "playing", "paused", "game_over"}

\* C17: the mode changes only from menu to playing on RETURN, between playing
\* and paused on ESCAPE, from playing to game_over in a tick that ends with
\* the player dead or that touched the goal at level 5, and from game_over
\* to menu on RETURN; every other step leaves the mode unchanged, and the
\* mode is never level_complete
C17_ModeTransitions ==
    /\ [](state \in ModesInUse /\ state # "level_complete")
    /\ [][state' # state =>
            \/ /\ state = "menu" /\ state' = "playing"
               /\ last'.op = "key" /\ last'.arg = "K_RETURN"
            \/ /\ state = "playing" /\ state' = "paused"
               /\ last'.op = "key" /\ last'.arg = "K_ESCAPE"
            \/ /\ state = "paused" /\ state' = "playing"
               /\ last'.op = "key" /\ last'.arg = "K_ESCAPE"
            \/ /\ state = "playing" /\ state' = "game_over"
               /\ last'.op = "tick"
               /\ \/ ent'[player'].health <= 0
                  \/ last'.advanced /\ level = FINAL_LEVEL
            \/ /\ state = "game_over" /\ state' = "menu"
               /\ last'.op = "key" /\ last'.arg = "K_RETURN"]_vars

\* C17 witness: RETURN has acknowledged the game-over screen of a lost game
\* (RETURN in the menu itself starts a game, so the step came from game_over)
C17_DefeatAcknowledged ==
    /\ state = "menu"
    /\ last.op = "key" /\ last.arg = "K_RETURN"
    /\ ent[player].health <= 0

\* C18: while the mode is menu, paused or game_over, a tick and the punch,
\* power-hotkey and debug-toggle keys leave the whole game unchanged:
\* every sprite's fields, the groups, score, level, camera, mode, debug flag
C18_FrozenOutsidePlay ==
    [][(/\ state # "playing"
        /\ \/ last'.op = "tick"
           \/ last'.op = "key" /\ last'.arg \in {"K_SPACE", "K_1", "K_d"})
       => UNCHANGED GameVars]_vars

\* C18 witness: a tick has passed in a paused game whose player is hurt and
\* still inside its invulnerability window
C18_TickWhilePausedMidWindow ==
    /\ state = "paused"
    /\ last.op = "tick"
    /\ ent[player].invulnerable
    /\ ent[player].invuln_timer \in 1..(invuln_duration - 1)

\* C19: the camera offset is always within 0..(world_width - SCREEN_WIDTH),
\* and after every Playing tick it is the player's x minus a third of the
\* screen width, clamped to that range
C19_CameraClamped ==
    /\ [](camera_x \in 0..(world_width - SCREEN_WIDTH))
    /\ [][(state = "playing" /\ last'.op = "tick")
            => camera_x' = Max(0, Min(ent'[player'].x - (SCREEN_WIDTH \div 3),
                                      world_width - SCREEN_WIDTH))]_vars

\* C19 witness: a Playing tick ended with the target beyond the right end of
\* the range and the camera held at that end
C19_HeldAtRightEnd ==
    /\ state = "playing"
    /\ last.op = "tick"
    /\ ent[player].x - (SCREEN_WIDTH \div 3) > world_width - SCREEN_WIDTH
    /\ camera_x = world_width - SCREEN_WIDTH

\* the sum of the damage values of the enemies in S
RECURSIVE SumDamage(_)
SumDamage(S) ==
    IF S = {} THEN 0
    ELSE LET id == CHOOSE x \in S : TRUE
         IN  ent[id].damage + SumDamage(S \ {id})

\* the first enemy, in the order of the enemies group, within the radius
FirstInContact ==
    enemies[CHOOSE i \in 1..Len(enemies) :
                /\ enemies[i] \in InContact
                /\ \A j \in 1..(i - 1) : enemies[j] \notin InContact]

\* the contact pass of the coming tick starts with the player not
\* invulnerable: the flag is off, or Player.update turns it off in that tick
VulnerableAtPass ==
    ~ent[player].invulnerable \/ ent[player].invuln_timer = 1

\* C20 as stated: in a Playing tick whose contact pass starts with the player
\* not invulnerable, every enemy within the radius deals its damage: the
\* health drops by the sum of their damages, floored at 0
C20_EveryEnemyInRangeHits ==
    [][(state = "playing" /\ last'.op = "tick" /\ VulnerableAtPass)
        => ent'[player'].health =
              Max(0, ent[player].health - SumDamage(InContact)')]_vars

\* C20, amended: in a Playing tick whose contact pass starts with the player
\* not invulnerable and with one or more enemies within the radius, exactly
\* one enemy deals its damage, the first of them in the order of the enemies
\* group: the health drops by that enemy's damage alone, floored at 0, and
\* the invulnerability window that hit opens shields the player from the rest
C20_FirstEnemyInRangeHits ==
    [][(state = "playing" /\ last'.op = "tick" /\ VulnerableAtPass
        /\ InContact' # {})
        => /\ Len(last'.contact) = 1
           /\ last'.contact[1].enemy = FirstInContact'
           /\ ent'[player'].health =
                 Max(0, ent[player].health - ent'[FirstInContact'].damage)
           /\ ent'[player'].invulnerable]_vars

\* C20 witness: a tick in which two or more enemies were within the radius
\* and the player, not invulnerable when the pass started (the earlier
\* window ran out in that tick's Player.update), took a single hit
C20_TwoInRangeOneHit ==
    /\ last.op = "tick"
    /\ ~last.pre.invulnerable \/ last.pre.invuln_timer = 1
    /\ Cardinality(InContact) >= 2
    /\ Len(last.contact) = 1
    /\ ent[player].health = last.pre.health - ent[FirstInContact].damage
    /\ ent[player].health > 0

\* the points of the entries of s
RECURSIVE SumPoints(_)
SumPoints(s) ==
    IF s = <<>> THEN 0 ELSE Head(s).points + SumPoints(Tail(s))

\* C21: an enemy whose health a punch or a projectile brings to <= 0 leaves
\* the enemies group and all_sprites in that tick and its points are added to
\* the score exactly once (no enemy is brought to <= 0 twice, and the score
\* grows by the points of the fallen enemies and the treasures picked); an
\* enemy left above 0 stays; no live enemy ever has health <= 0
C21_DeadEnemiesLeaveAndScoreOnce ==
    /\ [](\A id \in DOMAIN ent : ent[id].kind = "enemy" => ent[id].health > 0)
    /\ [][(state = "playing" /\ last'.op = "tick") =>
            LET blows == [k \in 1..Len(last'.punched) |->
                            [id |-> last'.punched[k].id,
                             before |-> last'.punched[k].before,
                             after |-> last'.punched[k].after,
                             points |-> last'.punched[k].points]]
                         \o [k \in 1..Len(last'.shot) |->
                            [id |-> last'.shot[k].id,
                             before |-> last'.shot[k].before,
                             after |-> last'.shot[k].after,
                             points |-> last'.shot[k].points]]
                Fatal(b) == b.after <= 0
            IN  /\ \A k \in 1..Len(blows) :
                      /\ blows[k].id \in Range(enemies)
                      /\ blows[k].before > 0
                      /\ blows[k].points = ent[blows[k].id].points
                      /\ Fatal(blows[k]) =>
                            /\ blows[k].id \notin Range(enemies')
                            /\ blows[k].id \notin Range(all_sprites')
                            /\ \A j \in 1..Len(blows) :
                                  (j # k /\ Fatal(blows[j])) => blows[j].id # blows[k].id
                      /\ (~Fatal(blows[k]) /\ \A j \in (k + 1)..Len(blows) :
                                                  blows[j].id # blows[k].id) =>
                            /\ blows[k].id \in Range(enemies')
                            /\ ent'[blows[k].id].health = blows[k].after
                /\ score' = score + SumPoints(SelectSeq(blows, Fatal))
                                  + SumPoints(last'.picked)]_vars

\* C21 witness: in one tick a punch felled one enemy and a projectile another,
\* and the score holds the points of both
C21_PunchAndShotKill ==
    /\ last.op = "tick"
    /\ \E i \in 1..Len(last.punched), j \in 1..Len(last.shot) :
          /\ last.punched[i].after <= 0
          /\ last.shot[j].after <= 0
          /\ last.punched[i].id # last.shot[j].id
          /\ last.punched[i].id \notin Range(enemies)
          /\ last.shot[j].id \notin Range(enemies)
          /\ score = last.punched[i].points + last.shot[j].points

\* the rectangles Enemy.update can leave the enemy e with
MovedRects(e) ==
    {RectOf(EnemyUpdate(e, d)) :
        d \in (IF e.move_timer + 1 > 60 THEN {-1, 1} ELSE {e.move_direction})}

\* C22: in every Playing tick in which is_punching is true at the collision
\* check, every enemy of the enemies group whose rectangle overlaps the
\* expanded punch rectangle takes the punch damage once in that tick, however
\* many enemies overlap and whether or not the enemy was hit in earlier ticks
\* of the same swing
C22_EveryOverlappingEnemyEveryTick ==
    [][(state = "playing" /\ last'.op = "tick" /\ ent'[player'].is_punching) =>
         \A id \in Range(enemies) :
            (\A r \in MovedRects(ent[id]) :
                ColliderRect(ExpandedPunchRect(ent'[player']), r)) =>
                /\ Cardinality({k \in 1..Len(last'.punched) :
                                    last'.punched[k].id = id}) = 1
                /\ \A k \in 1..Len(last'.punched) :
                      last'.punched[k].id = id =>
                         /\ last'.punched[k].before = ent[id].health
                         /\ last'.punched[k].after =
                               ent[id].health - ent'[player'].punch_damage]_vars

\* C22 witness: one tick of a swing hit two enemies, one of them for the
\* second time (it had survived the tick before with full health less one
\* punch) and the other for the first time
C22_TwoHitOneAgain ==
    /\ last.op = "tick"
    /\ ent[player].is_punching
    /\ \E i, j \in 1..Len(last.punched) :
          /\ last.punched[i].id # last.punched[j].id
          /\ last.punched[i].before =
                NewEnemy(0, 0, level, 1).health - ent[player].punch_damage
          /\ last.punched[j].before = NewEnemy(0, 0, level, 1).health

\* C23: in the projectile pass a projectile damages at most one enemy per
\* tick: a projectile that has hit an enemy is out of the projectiles group
\* and no second Enemy.take_damage call of the tick comes from it
C23_ProjectileHitsAtMostOne ==
    \A i, j \in 1..Len(last.shot) :
        /\ last.shot[i].projectile \notin Range(projectiles)
        /\ i # j => last.shot[i].projectile # last.shot[j].projectile

\* the rectangle b is at least partly inside the viewport of a camera at cam
InView(b, cam) == b.x + b.w - cam >= 0 /\ b.x - cam <= SCREEN_WIDTH

\* C24: a projectile whose rectangle after its move is still inside the
\* camera's view (screen x = world x - camera offset, viewport 0..1200,
\* with the offset before and after the tick) is not removed by its update:
\* unless it hit an enemy or was swept by cleanup, it is still in flight
C24_VisibleProjectileStays ==
    [][(state = "playing" /\ last'.op = "tick" /\ ~last'.advanced) =>
         \A id \in Range(projectiles) :
            LET b == ProjectileUpdate(ent[id])
            IN  (/\ InView(b, camera_x)
                 /\ InView(b, camera_x')
                 /\ \A k \in 1..Len(last'.shot) : last'.shot[k].projectile # id
                 /\ \A k \in 1..Len(last'.swept) : last'.swept[k] # id)
                => id \in Range(projectiles')]_vars

\* the rectangle of item grown by margin on every side overlaps the rectangle
\* q, or the rectangle of item itself does
Reaches(q, item, margin) ==
    \/ ColliderRect(Rect(item.x - margin, item.y - margin,
                         item.w + 2 * margin, item.h + 2 * margin), q)
    \/ ColliderRect(q, RectOf(item))

\* C25: in a Playing tick a treasure (margin 25) or power-up (margin 30) of
\* the live collections is picked up exactly when its rectangle after its
\* update, grown by the margin, overlaps the player's rectangle or the raw
\* rectangles overlap: a picked treasure is picked once, leaves treasures and
\* all_sprites in that tick and the score grows by the points of the picked
\* treasures; a picked power-up leaves power_ups and all_sprites and
\* add_power_up is called once per picked power-up, with its kind; an item
\* not reached stays unless cleanup sweeps it
C25_PickupExactlyWhenReached ==
    [][(state = "playing" /\ last'.op = "tick" /\ ~last'.advanced) =>
         LET q == RectOf(ent'[player'])
             got == {id \in Range(treasures) : Reaches(q, TreasureUpdate(ent[id]), 25)}
             pow == SelectSeq(power_ups,
                       LAMBDA id : Reaches(q, PowerUpUpdate(ent[id]), 30))
             Swept(id) == \E k \in 1..Len(last'.swept) : last'.swept[k] = id
         IN  /\ {last'.picked[k].id : k \in 1..Len(last'.picked)} = got
             /\ Len(last'.picked) = Cardinality(got)
             /\ \A k \in 1..Len(last'.picked) :
                   last'.picked[k].points = ent[last'.picked[k].id].points
             /\ \A id \in Range(treasures) :
                   IF id \in got
                   THEN id \notin Range(treasures') /\ id \notin Range(all_sprites')
                   ELSE Swept(id) \/ id \in Range(treasures')
             /\ last'.punched = <<>> /\ last'.shot = <<>> =>
                   score' = score + SumPoints(last'.picked)
             /\ last'.powered = [k \in 1..Len(pow) |-> ent[pow[k]].power_type]
             /\ \A id \in Range(power_ups) :
                   IF id \in Range(pow)
                   THEN id \notin Range(power_ups') /\ id \notin Range(all_sprites')
                   ELSE Swept(id) \/ id \in Range(power_ups')]_vars

\* C25 witness: one tick picked a treasure and the power-up; the treasure
\* above the player's head, passed earlier or not yet reached, is still there
C25_TreasureAndPowerUpPicked ==
    /\ last.op = "tick"
    /\ Len(last.picked) = 1
    /\ last.powered = <<"laser_eyes">>
    /\ last.picked[1].id \notin Range(treasures)
    /\ power_ups = <<>>
    /\ Count(ent[player].power_ups, "laser_eyes") = 1
    /\ ent[player].weapon_ammo["laser_eyes"] = 5 + AmmoPerPickup["laser_eyes"]
    /\ score >= last.picked[1].points
    /\ \E id \in Range(treasures) : ent[id].original_y = 600

\* the sprites of kind k among the records of s
OfKind(s, k) == SelectSeq(s, LAMBDA rec : rec.kind = k)

\* C26: a call of generate_level_content at level L constructs exactly
\* 4 + 2L enemies, 3 + L treasures, 1 + floor(L / 2) power-ups and one level
\* goal, every enemy with health 20 + 5L, damage 8 + 3L and points 75 + 25L;
\* over levels 1..5 the counts never fall and the three enemy values rise
\* strictly with L
C26_LevelContentCounts ==
    /\ last.spawned # <<>> =>
          /\ level \in 1..FINAL_LEVEL
          /\ Len(OfKind(last.spawned, "enemy")) = 4 + 2 * level
          /\ Len(OfKind(last.spawned, "treasure")) = 3 + level
          /\ Len(OfKind(last.spawned, "power_up")) = 1 + (level \div 2)
          /\ Len(OfKind(last.spawned, "goal")) = 1
          /\ Len(last.spawned) = (4 + 2 * level) + (3 + level) + (1 + (level \div 2)) + 1
          /\ \A k \in 1..Len(last.spawned) :
                last.spawned[k].kind = "enemy" =>
                    /\ last.spawned[k].health = 20 + 5 * level
                    /\ last.spawned[k].damage = 8 + 3 * level
                    /\ last.spawned[k].points = 75 + 25 * level
    /\ \A L \in 1..(FINAL_LEVEL - 1) :
          /\ NumEnemies(L) <= NumEnemies(L + 1)
          /\ NumTreasures(L) <= NumTreasures(L + 1)
          /\ NumPowerUps(L) <= NumPowerUps(L + 1)
          /\ NewEnemy(0, 0, L, 1).health < NewEnemy(0, 0, L + 1, 1).health
          /\ NewEnemy(0, 0, L, 1).damage < NewEnemy(0, 0, L + 1, 1).damage
          /\ NewEnemy(0, 0, L, 1).points < NewEnemy(0, 0, L + 1, 1).points

\* C26 witness: the advance into the final level has generated its content:
\* 14 enemies of health 45, 8 treasures, 3 power-ups and the goal
C26_FinalLevelGenerated ==
    /\ last.op = "tick"
    /\ last.advanced
    /\ level = FINAL_LEVEL
    /\ Len(OfKind(last.spawned, "enemy")) = 14
    /\ Len(OfKind(last.spawned, "treasure")) = 8
    /\ Len(OfKind(last.spawned, "power_up")) = 3
    /\ \E k \in 1..Len(last.spawned) :
          last.spawned[k].kind = "enemy" /\ last.spawned[k].health = 45

\* the level goals among the members of all_sprites
LiveGoals == {id \in Range(all_sprites) : ent[id].kind = "goal"}

\* C27: at the end of every tick, and after every key, exactly one level
\* goal is live, the current one; a step that creates a goal (a level advance
\* or the start of a game) leaves the previous goal out of all_sprites
C27_ExactlyOneLiveGoal ==
    /\ [](LiveGoals = {level_goal})
    /\ [][level_goal' # level_goal =>
            /\ last'.spawned # <<>>
            /\ level_goal \notin Range(all_sprites')
            /\ LiveGoals' = {level_goal'}]_vars

\* C27 witness: the tick that advanced to the second level ended with the
\* fresh goal as the only live goal
C27_FreshGoalAfterAdvance ==
    /\ last.op = "tick"
    /\ last.advanced
    /\ level = 2
    /\ LiveGoals = {level_goal}
    /\ ent[level_goal].glow_timer = 0
    /\ Len(OfKind(last.spawned, "goal")) = 1

\* the bottom edge of the rectangle of s
Bottom(s) == s.y + s.h

\* C28: the player's left edge is never below 0 and its bottom edge never
\* below the ground line SCREEN_HEIGHT - 50; a Playing tick leaves the left
\* edge at the old x plus the tick's horizontal velocity, clamped at 0 only
\* (so x can pass the world width), and the bottom edge at the ground line
\* with zero velocity or at the old bottom plus the vertical velocity,
\* whether or not the tick swaps the standing sprite (height 80) and the
\* sneaking sprite (height 40)
C28_PlayerEdges ==
    /\ [](ent[player].x >= 0 /\ Bottom(ent[player]) <= SCREEN_HEIGHT - 50)
    /\ [][(state = "playing" /\ last'.op = "tick" /\ ~last'.advanced) =>
            LET p == ent[player]
                q == ent'[player']
            IN  /\ q.x = Max(0, p.x + q.vel_x)
                /\ q.h = (IF q.is_sneaking THEN 40 ELSE 80)
                /\ \/ Bottom(q) = SCREEN_HEIGHT - 50 /\ q.vel_y = 0 /\ q.on_ground
                   \/ Bottom(q) < SCREEN_HEIGHT - 50 /\ Bottom(q) = Bottom(p) + q.vel_y]_vars

\* C28 witness: the player has jumped over the goal and walked past the
\* right end of the world
C28_PastTheWorld ==
    /\ state = "playing"
    /\ last.op = "tick"
    /\ ent[player].x > world_width
    /\ ent[player].x = last.pre.x + player_speed

\* C29: whenever the player's on_ground flag is true its bottom edge is at
\* the ground line SCREEN_HEIGHT - 50, and a tick that applies the jump
\* velocity (the tick ends with vel_y = jump_power + gravity) starts with
\* the player's bottom edge at the ground line
C29_JumpOnlyFromGround ==
    /\ [](ent[player].on_ground => Bottom(ent[player]) = SCREEN_HEIGHT - 50)
    /\ [][(state = "playing" /\ last'.op = "tick"
            /\ ent'[player'].vel_y = jump_power + gravity)
            => Bottom(ent[player]) = SCREEN_HEIGHT - 50]_vars

\* C30: every member of all_sprites is the current player, the current
\* level goal, or a member of enemies, treasures, power_ups or projectiles;
\* the only Player sprite in all_sprites is the current player
C30_AllSpritesConsistent ==
    /\ Range(all_sprites) \subseteq
            ({player, level_goal} \cup Range(enemies) \cup Range(treasures)
                \cup Range(power_ups) \cup Range(projectiles))
    /\ \A id \in Range(all_sprites) : ent[id].kind = "player" => id = player

\* the enemies, treasures and power-ups of the groups that the last step's
\* generate_level_content constructed
FreshContent ==
    {id \in Range(enemies) \cup Range(treasures) \cup Range(power_ups) :
        \E k \in 1..Len(last.spawned) : last.spawned[k] = ent[id]}

\* C31: cleanup does not sweep the content of the current level: after a
\* step that generated a level every enemy, treasure and power-up it
\* constructed is live in its group, and at the end of the following tick
\* each of them is still live in its group unless that tick removed it by
\* something other than cleanup_sprites (it was defeated or picked up)
C31_CleanupSparesFreshContent ==
    /\ [](state = "playing" =>
            \A k \in 1..Len(last.spawned) :
                last.spawned[k].kind # "goal" =>
                    \E id \in Range(enemies) \cup Range(treasures) \cup Range(power_ups) :
                        ent[id] = last.spawned[k])
    /\ [][(state = "playing" /\ last.spawned # <<>> /\ last'.op = "tick") =>
            \A id \in FreshContent :
                \/ id \in Range(enemies') \cup Range(treasures') \cup Range(power_ups')
                \/ \A k \in 1..Len(last'.swept) : last'.swept[k] # id]_vars

\* C32: no step lowers the score or the level except the RETURN key on the
\* game-over screen, which sets the score to 0 and the level to 1 and leads
\* to the menu; the RETURN key in the menu then starts play at level 1 with
\* the score unchanged and a newly constructed player (health 100,
\* max_health 100, the initial ammunition)
C32_ScoreKeptUntilAcknowledged ==
    [][LET ack == state = "game_over" /\ last'.op = "key" /\ last'.arg = "K_RETURN"
           start == state = "menu" /\ last'.op = "key" /\ last'.arg = "K_RETURN"
       IN  /\ ~ack => score' >= score /\ level' >= level
           /\ ack => score' = 0 /\ level' = 1 /\ state' = "menu"
           /\ start => /\ state' = "playing"
                       /\ level' = 1 /\ level = 1
                       /\ score' = score
                       /\ player' # player
                       /\ ent'[player'] = NewPlayer(100, SCREEN_HEIGHT - 150)
                       /\ ent'[player'].health = 100
                       /\ ent'[player'].max_health = 100
                       /\ ent'[player'].weapon_ammo =
                              [fireball |-> 10, gun |-> 20, laser_eyes |-> 5, bow |-> 12]]_vars

\* C32 witness: a new game has just been started from the menu after a game
\* that ended at the last goal: the score is 0, the level 1, and the player
\* is new while the player of the step before stood at the end of the world
C32_SecondGameStarted ==
    /\ state = "playing"
    /\ last.op = "key" /\ last.arg = "K_RETURN"
    /\ last.pre.x > 2000
    /\ score = 0 /\ level = 1
    /\ ent[player].health = 100

====
